---- MODULE Spec2Model ----
(***************************************************************************)
(* Model of the family-policy reconciliation runtime: the policy           *)
(* document, its translation into per-browser configurations, the three    *)
(* platform policy surfaces, the applied-state file, the local             *)
(* install/uninstall commands, the polling daemon and the time-limit       *)
(* tracker.                                                                *)
(***************************************************************************)
EXTENDS Integers, Sequences, FiniteSets, TLC

VARIABLES
    platform,     \* browser::current_platform(): fixed for one build/run
    surface,      \* per browser: what the OS policy surface holds
    stateFile,    \* content of state.json (None when the file is absent)
    tmpFile,      \* content of state.tmp, the temporary of atomic_write
    lastOp,       \* outcome of the last local command (install / uninstall)
    agentConfig,  \* [agent] section of the agent configuration
    server,       \* what the remote policy URL currently serves
    pc,           \* position of the daemon task
    mem,          \* the daemon's in-memory AgentState (`state` in daemon.rs)
    retries,      \* `retries` of check_and_apply_with_retry
    backoff,      \* seconds of the backoff sleep in progress
    iter,         \* outcome of the current check_and_apply_policy attempt
    now,          \* wall clock (Utc::now()), in ticks
    tlConfig,     \* TimeLimitsConfig the tracker was constructed with
    tlState,      \* the tracker's TimeLimitsState (behind its state mutex)
    tracker,      \* the tracker's flags and the position of its tick loop
    clock,        \* the tracker's clock: UTC date and elapsed seconds
    tick,         \* record of the calls the tracker made to the enforcer
    tlFile,       \* content of time-limits-state.json (Nothing when absent)
    gate,         \* a RateLimiter of the admin gate and the instant it is at
    translated,   \* a policy document and what to_browser_configs made of it
    preview,      \* a document, an applied-state and what generate_diff made of them
    scheduler,    \* a PollingScheduler and the intervals it has produced
    loops,        \* a TimeTracker's running flag and the tick loops it has spawned
    mutex         \* the tracker's locks: holders, waiters and the tasks using them

vars == <<platform, surface, stateFile, tmpFile, lastOp, agentConfig,
          server, pc, mem, retries, backoff, iter, now,
          tlConfig, tlState, tracker, clock, tick, tlFile, gate, translated, preview, scheduler, loops,
          mutex>>

trackerVars == <<tlConfig, tlState, tracker, clock, tick, tlFile, gate>>

pureVars == <<translated, preview, scheduler, loops, mutex>>

policyVars == <<platform, surface, stateFile, tmpFile, lastOp, agentConfig,
                server, pc, mem, retries, backoff, iter, now, pureVars>>

localVars  == <<lastOp>>
daemonVars == <<tmpFile, agentConfig, server, pc, mem, retries, backoff, iter, now>>

-----------------------------------------------------------------------------
(* Basic vocabulary                                                        *)

\* Option<T>: None, or Some(x).  Optional strings and booleans are written
\* as strings ("None", "true", "false"); an optional record is the empty or
\* the one-element tuple.
None == "None"

Yes == "true"

No == "false"

Not(flag) == IF flag = Yes THEN No ELSE Yes

Nothing == <<>>

Some(x) == <<x>>

Browsers == {"chrome", "firefox", "edge"}

Platforms == {"Windows", "MacOS", "Linux"}

ExtIds == {"a", "b"}

DEFAULT_CHROME_UPDATE_URL == "https://clients2.google.com/service/update2/crx"

FIREFOX_ADDONS_BASE == "https://addons.mozilla.org/firefox/downloads/latest"

STATE_VERSION == "1.0"

generate_firefox_install_url(id) == <<FIREFOX_ADDONS_BASE, id, "latest.xpi">>

\* BrowserIdMap: Single(String) | Multiple(HashMap<Browser, String>)
Single(id) == [kind |-> "Single", id |-> id]

Multiple(map) == [kind |-> "Multiple", map |-> map]

get_id(idmap, browser) ==
    IF idmap.kind = "Single" THEN idmap.id
    ELSE IF browser \in DOMAIN idmap.map THEN idmap.map[browser]
    ELSE None

\* Extension (internal): update_url for Chrome/Edge, install_url for Firefox
Extension(browser, id) ==
    [id |-> id,
     update_url  |-> IF browser \in {"chrome", "edge"}
                     THEN DEFAULT_CHROME_UPDATE_URL ELSE None,
     install_url |-> IF browser = "firefox"
                     THEN generate_firefox_install_url(id) ELSE None]

-----------------------------------------------------------------------------
(* Validation and translation of a policy document (config.rs)             *)

validate_extension_entry(ext, browsers) ==
    \A b \in browsers : get_id(ext.id, b) \in ExtIds

validate_policy_entry(policy) ==
    /\ policy.browsers # {}
    /\ \A i \in 1..Len(policy.extensions) :
          validate_extension_entry(policy.extensions[i], policy.browsers)

validate_config(config) ==
    /\ Len(config.policies) > 0
    /\ \A i \in 1..Len(config.policies) : validate_policy_entry(config.policies[i])

\* extensions pushed for `browser` by the entries exts[1..n] of one policy
RECURSIVE PolicyExtensions(_, _, _)
PolicyExtensions(exts, n, browser) ==
    IF n = 0 THEN <<>>
    ELSE LET id == get_id(exts[n].id, browser)
         IN  PolicyExtensions(exts, n - 1, browser)
               \o (IF id # None THEN <<Extension(browser, id)>> ELSE <<>>)

\* extensions pushed for `browser` by the policies[1..n]
RECURSIVE BrowserExtensions(_, _, _)
BrowserExtensions(policies, n, browser) ==
    IF n = 0 THEN <<>>
    ELSE BrowserExtensions(policies, n - 1, browser)
           \o (IF browser \in policies[n].browsers
               THEN PolicyExtensions(policies[n].extensions,
                                     Len(policies[n].extensions), browser)
               ELSE <<>>)

\* value of a privacy flag for `browser` after policies[1..n]: the last
\* policy that targets the browser and sets the flag wins
RECURSIVE BrowserFlag(_, _, _, _)
BrowserFlag(policies, n, browser, field) ==
    IF n = 0 THEN None
    ELSE IF browser \in policies[n].browsers /\ policies[n][field] # None
         THEN policies[n][field]
         ELSE BrowserFlag(policies, n - 1, browser, field)

to_browser_configs_GuestEverywhere(config) ==
    LET n == Len(config.policies)
        exts(b) == BrowserExtensions(config.policies, n, b)
        priv(b) == BrowserFlag(config.policies, n, b, "disable_private_mode")
        guest(b) == BrowserFlag(config.policies, n, b, "disable_guest_mode")
    IN  [b \in Browsers |->
            IF exts(b) # <<>> \/ priv(b) # None \/ guest(b) # None
            THEN Some([extensions |-> exts(b),
                       disable_private_mode |-> priv(b),
                       disable_guest_mode |-> guest(b)])
            ELSE Nothing]

to_browser_configs(config) ==
    LET n == Len(config.policies)
        exts(b) == BrowserExtensions(config.policies, n, b)
        priv(b) == BrowserFlag(config.policies, n, b, "disable_private_mode")
        guest(b) == IF b = "firefox" THEN None
                    ELSE BrowserFlag(config.policies, n, b, "disable_guest_mode")
    IN  [b \in Browsers |->
            IF exts(b) # <<>> \/ priv(b) # None \/ guest(b) # None
            THEN Some([extensions |-> exts(b),
                       disable_private_mode |-> priv(b),
                       disable_guest_mode |-> guest(b)])
            ELSE Nothing]

-----------------------------------------------------------------------------
(* Platform policy surfaces                                                *)

\* A surface is what the browser reads: the forced-extension list, the
\* private-mode key (IncognitoModeAvailability / InPrivateModeAvailability /
\* DisablePrivateBrowsing, present with its "disabled" value or not there) and
\* BrowserGuestModeEnabled (None when the key is not there).  Chromium lists
\* are ordered; Firefox ExtensionSettings is a JSON object keyed by id.
NoExtensions(browser) == IF browser = "firefox" THEN {} ELSE <<>>

AbsentSurface(browser) ==
    [present |-> FALSE, exts |-> NoExtensions(browser),
     private |-> FALSE, guest |-> None]

\* "{extension_id};{update_url}"
format_chromium_extension_entry(ext) ==
    <<ext.id, ";",
      IF ext.update_url # None THEN ext.update_url ELSE DEFAULT_CHROME_UPDATE_URL>>

ExtensionStrings(config) ==
    [i \in 1..Len(config.extensions) |->
        format_chromium_extension_entry(config.extensions[i])]

\* ids a surface forces to be installed
SurfaceIds(browser, s) ==
    IF browser = "firefox" THEN {e[1] : e \in s.exts}
    ELSE {s.exts[i][1] : i \in 1..Len(s.exts)}

\* the policy JSON object built by apply_chrome_linux / apply_edge_linux
ChromiumPolicyJson(config) ==
    [present |-> TRUE,
     exts    |-> ExtensionStrings(config),
     private |-> (config.disable_private_mode = Yes),
     guest   |-> IF config.disable_guest_mode # None
                 THEN Not(config.disable_guest_mode) ELSE None]

\* One file, written by atomic_write: all or nothing.
apply_chromium_linux(browser, config, old, failAt) ==
    IF failAt # 0
    THEN [ok |-> FALSE, surface |-> old, ops |-> <<<<browser, "policy_file">>>>]
    ELSE [ok |-> TRUE, surface |-> ChromiumPolicyJson(config),
          ops |-> <<<<browser, "policy_file">>>>]

\* write_plist_policy merges the updates into the existing dictionary.
apply_chromium_macos(browser, config, old, failAt) ==
    IF failAt # 0
    THEN [ok |-> FALSE, surface |-> old, ops |-> <<<<browser, "policy_file">>>>]
    ELSE [ok |-> TRUE,
          surface |->
            [present |-> TRUE,
             exts    |-> IF config.extensions # <<>>
                         THEN ExtensionStrings(config) ELSE old.exts,
             private |-> (old.private \/ config.disable_private_mode = Yes),
             guest   |-> IF config.disable_guest_mode # None
                         THEN Not(config.disable_guest_mode) ELSE old.guest],
          ops |-> <<<<browser, "policy_file">>>>]

\* The registry operations apply_chrome_windows issues, in order.
WindowsOps(config) ==
    (IF config.extensions # <<>> THEN <<"extensions">> ELSE <<>>)
    \o (IF config.disable_private_mode = Yes THEN <<"private">> ELSE <<>>)
    \o (IF config.disable_guest_mode # None THEN <<"guest">> ELSE <<>>)

\* effect of one registry operation; write_registry_policy first deletes the
\* numbered values, then writes the new ones
WindowsOp(op, config, s) ==
    IF op = "extensions"
    THEN [s EXCEPT !.present = TRUE, !.exts = ExtensionStrings(config)]
    ELSE IF op = "private"
    THEN [s EXCEPT !.present = TRUE, !.private = TRUE]
    ELSE [s EXCEPT !.present = TRUE, !.guest = Not(config.disable_guest_mode)]

RECURSIVE WindowsRun(_, _, _, _)
WindowsRun(ops, n, config, s) ==
    IF n = 0 THEN s
    ELSE WindowsOp(ops[n], config, WindowsRun(ops, n - 1, config, s))

\* Operation number failAt (when there is one) fails; the earlier ones stay.
apply_chromium_windows(browser, config, old, failAt) ==
    LET ops    == WindowsOps(config)
        failed == failAt # 0 /\ failAt <= Len(ops)
        done   == IF failed THEN failAt - 1 ELSE Len(ops)
        tried  == IF failed THEN failAt ELSE Len(ops)
    IN  [ok |-> ~failed,
         surface |-> WindowsRun(ops, done, config, old),
         ops |-> [i \in 1..tried |-> <<browser, ops[i]>>]]

\* BrowserState returned by apply_chrome_policies / apply_edge_policies /
\* apply_firefox_policies
BrowserState(browser, config) ==
    [extensions |-> [i \in 1..Len(config.extensions) |-> config.extensions[i].id],
     disable_incognito |-> IF browser = "chrome"
                           THEN config.disable_private_mode ELSE None,
     disable_inprivate |-> IF browser = "edge"
                           THEN config.disable_private_mode ELSE None,
     disable_private_browsing |-> IF browser = "firefox"
                                  THEN config.disable_private_mode ELSE None,
     disable_guest_mode |-> IF browser = "firefox"
                            THEN None ELSE config.disable_guest_mode]

is_empty(state) ==
    /\ state.extensions = <<>>
    /\ state.disable_incognito = None
    /\ state.disable_inprivate = None
    /\ state.disable_private_browsing = None
    /\ state.disable_guest_mode = None

apply_chromium_policies(plat, browser, config, old, failAt) ==
    LET r == IF plat = "Windows"
             THEN apply_chromium_windows(browser, config, old, failAt)
             ELSE IF plat = "MacOS"
             THEN apply_chromium_macos(browser, config, old, failAt)
             ELSE apply_chromium_linux(browser, config, old, failAt)
    IN  [ok |-> r.ok, surface |-> r.surface, ops |-> r.ops,
         state |-> BrowserState(browser, config)]

\* policies.json is rebuilt from the configuration and written atomically,
\* on every platform
create_firefox_policies_json(config) ==
    [present |-> TRUE,
     exts    |-> {<<config.extensions[i].id, config.extensions[i].install_url>> :
                     i \in 1..Len(config.extensions)},
     private |-> (config.disable_private_mode = Yes),
     guest   |-> None]

apply_firefox_policies(config, old, failAt) ==
    [ok |-> (failAt = 0),
     surface |-> IF failAt = 0 THEN create_firefox_policies_json(config) ELSE old,
     ops |-> <<<<"firefox", "policy_file">>>>,
     state |-> BrowserState("firefox", config)]

apply_browser(plat, browser, config, old, failAt) ==
    IF browser = "firefox"
    THEN apply_firefox_policies(config, old, failAt)
    ELSE apply_chromium_policies(plat, browser, config, old, failAt)

-----------------------------------------------------------------------------
(* Removal of a browser's policies                                         *)

HasEntries(browser, s) ==
    s.exts # NoExtensions(browser) \/ s.private \/ s.guest # None

\* remove_json_policy: delete the file (the error is propagated)
remove_chromium_linux(browser, old, failAt) ==
    IF failAt # 0 THEN [ok |-> FALSE, surface |-> old]
    ELSE [ok |-> TRUE, surface |-> AbsentSurface(browser)]

\* remove_plist_keys: drop the three keys, delete the plist once it is empty
remove_chromium_macos(browser, old, failAt) ==
    IF failAt # 0 THEN [ok |-> FALSE, surface |-> old]
    ELSE [ok |-> TRUE, surface |-> AbsentSurface(browser)]

\* remove_chrome_windows: three registry deletions whose errors are dropped
\* (`let _ = ...`); the policy key itself is left in place
remove_chromium_windows(browser, old, failAt) ==
    [ok |-> TRUE,
     surface |-> [present |-> old.present,
                  exts    |-> IF failAt = 1 THEN old.exts ELSE <<>>,
                  private |-> IF failAt = 2 THEN old.private ELSE FALSE,
                  guest   |-> IF failAt = 3 THEN old.guest ELSE None]]

remove_firefox_policies(old, failAt) ==
    IF old.present /\ failAt # 0 THEN [ok |-> FALSE, surface |-> old]
    ELSE [ok |-> TRUE, surface |-> AbsentSurface("firefox")]

remove_browser(plat, browser, old, failAt) ==
    IF browser = "firefox" THEN remove_firefox_policies(old, failAt)
    ELSE IF plat = "Windows" THEN remove_chromium_windows(browser, old, failAt)
    ELSE IF plat = "MacOS" THEN remove_chromium_macos(browser, old, failAt)
    ELSE remove_chromium_linux(browser, old, failAt)

-----------------------------------------------------------------------------
(* The reconciler: policy/mod.rs and daemon.rs                             *)

\* AppliedPolicies::default()
DefaultAppliedPolicies == [b \in Browsers |-> Nothing]

\* Injected faults: for each browser surface (and for the state file) the
\* number of the operation that fails, 0 when none does.
FailTargets == Browsers \cup {"state"}

NoFail == [t \in FailTargets |-> 0]

FailOf(target, at) == [t \in FailTargets |-> IF t = target THEN at ELSE 0]

\* one `if let Some(cfg) = ..._config { apply_..._policies(&cfg)?; }` block;
\* acc.ok = FALSE means `?` has already returned the error
ApplyStep(plat, configs, fail, acc, browser) ==
    IF ~acc.ok \/ configs[browser] = Nothing THEN acc
    ELSE LET r == apply_browser(plat, browser, configs[browser][1],
                                acc.surface[browser], fail[browser])
         IN  [ok        |-> r.ok,
              surface   |-> [acc.surface EXCEPT ![browser] = r.surface],
              applied   |-> IF r.ok /\ ~is_empty(r.state)
                            THEN [acc.applied EXCEPT ![browser] = Some(r.state)]
                            ELSE acc.applied,
              attempted |-> Append(acc.attempted, browser),
              ops       |-> acc.ops \o r.ops]

\* Chrome, then Firefox, then Edge
apply_policies(plat, surf, config, fail) ==
    LET configs == to_browser_configs(config)
        start   == [ok |-> TRUE, surface |-> surf,
                    applied |-> DefaultAppliedPolicies,
                    attempted |-> <<>>, ops |-> <<>>]
        chrome  == ApplyStep(plat, configs, fail, start, "chrome")
        firefox == ApplyStep(plat, configs, fail, chrome, "firefox")
    IN  ApplyStep(plat, configs, fail, firefox, "edge")

\* daemon.rs: one `if let Some(x) = x_config { let state =
\* apply_x_policies(&x, false)?; applied.x = Some(state); }` block.
\* write_failed remembers that a surface write of this apply has failed.
ConfigStep(plat, configs, fail, acc, browser) ==
    IF ~acc.ok \/ configs[browser] = Nothing THEN acc
    ELSE LET r == apply_browser(plat, browser, configs[browser][1],
                                acc.surface[browser], fail[browser])
         IN  [ok           |-> r.ok,
              write_failed |-> ~r.ok,
              surface      |-> [acc.surface EXCEPT ![browser] = r.surface],
              applied      |-> IF r.ok
                               THEN [acc.applied EXCEPT ![browser] = Some(r.state)]
                               ELSE acc.applied,
              attempted    |-> Append(acc.attempted, browser),
              ops          |-> acc.ops \o r.ops]

ConfigSteps(plat, surf, config, fail) ==
    LET configs == to_browser_configs(config)
        start   == [ok |-> TRUE, write_failed |-> FALSE, surface |-> surf,
                    applied |-> DefaultAppliedPolicies,
                    attempted |-> <<>>, ops |-> <<>>]
        chrome  == ConfigStep(plat, configs, fail, start, "chrome")
        firefox == ConfigStep(plat, configs, fail, chrome, "firefox")
    IN  ConfigStep(plat, configs, fail, firefox, "edge")

\* an apply that reports success although a surface write failed
apply_policy_config_DropsErrors(plat, surf, config, fail) ==
    [ConfigSteps(plat, surf, config, fail) EXCEPT !.ok = TRUE]

\* Chrome, then Firefox, then Edge; the first error is returned
apply_policy_config(plat, surf, config, fail) ==
    ConfigSteps(plat, surf, config, fail)

\* a removal block that gives up once an earlier removal has failed
RemoveStep_StopsAtFirstError(plat, applied, fail, acc, browser) ==
    IF applied[browser] = Nothing \/ acc.any_errors THEN acc
    ELSE LET r == remove_browser(plat, browser, acc.surface[browser], fail[browser])
         IN  [any_errors |-> ~r.ok,
              surface    |-> [acc.surface EXCEPT ![browser] = r.surface],
              attempted  |-> Append(acc.attempted, browser),
              failed     |-> IF r.ok THEN acc.failed ELSE acc.failed \cup {browser}]

\* one `if state.applied_policies.x.is_some() { match remove_x_policies() }`
\* block: an error sets any_errors and the next block still runs
RemoveStep(plat, applied, fail, acc, browser) ==
    IF applied[browser] = Nothing THEN acc
    ELSE LET r == remove_browser(plat, browser, acc.surface[browser], fail[browser])
         IN  [any_errors |-> acc.any_errors \/ ~r.ok,
              surface    |-> [acc.surface EXCEPT ![browser] = r.surface],
              attempted  |-> Append(acc.attempted, browser),
              failed     |-> IF r.ok THEN acc.failed ELSE acc.failed \cup {browser}]

remove_policies(plat, surf, state, fail) ==
    LET start   == [any_errors |-> FALSE, surface |-> surf,
                    attempted |-> <<>>, failed |-> {}]
        chrome  == RemoveStep(plat, state.applied_policies, fail, start, "chrome")
        firefox == RemoveStep(plat, state.applied_policies, fail, chrome, "firefox")
        edge    == RemoveStep(plat, state.applied_policies, fail, firefox, "edge")
    IN  [ok |-> ~edge.any_errors, surface |-> edge.surface,
         attempted |-> edge.attempted, failed |-> edge.failed]

-----------------------------------------------------------------------------
(* The state store of the local commands (state.rs)                        *)

\* serde_json::to_string(config): the entries of a HashMap (a per-browser id
\* map) come out in the map's iteration order, which is seeded per process;
\* `order` is the order this run happens to produce.
HasMultiKeyMap(config) ==
    \E i \in 1..Len(config.policies) :
      \E j \in 1..Len(config.policies[i].extensions) :
        LET id == config.policies[i].extensions[j].id
        IN  id.kind = "Multiple" /\ Cardinality(DOMAIN id.map) >= 2

MapOrders(config) == IF HasMultiKeyMap(config) THEN {1, 2} ELSE {1}

Serialize(config, order) == [json |-> config, map_order |-> order]

\* "sha256:" followed by the digest; SHA-256 is taken to be collision-free
Sha256(bytes) == <<"sha256:", bytes>>

compute_config_hash(config, order) == Sha256(Serialize(config, order))

create_state(config, applied_policies, order) ==
    [version |-> STATE_VERSION,
     config_hash |-> compute_config_hash(config, order),
     applied_policies |-> applied_policies]

\* None when the file is absent or carries another version
load_state(file) ==
    IF file = Nothing THEN Nothing
    ELSE IF file[1].version # STATE_VERSION THEN Nothing
    ELSE file

-----------------------------------------------------------------------------
(* Inputs                                                                  *)

\* (disable_private_mode, disable_guest_mode) of a policy entry
FlagPairs == {<<None, None>>}

BrowserSets == {{"chrome"}, {"firefox", "edge"}, Browsers}

IdMaps == {Single("a"),
           Multiple([chrome |-> "b", firefox |-> "a", edge |-> "b"])}

ExtensionLists == {<<>>} \cup {<<[id |-> m]>> : m \in IdMaps}

PolicyEntries ==
    {[browsers |-> bs, disable_private_mode |-> fl[1],
      disable_guest_mode |-> fl[2], extensions |-> ex] :
        bs \in BrowserSets, fl \in FlagPairs, ex \in ExtensionLists}

\* the policy documents the commands are run with (all of them valid)
Docs == {[policies |-> <<p>>] : p \in PolicyEntries}

\* the faults that can strike an apply of `config`: any one operation on a
\* surface the apply writes (SurfaceFaults), or the write of the state file
NumOps(plat, browser, config) ==
    IF browser # "firefox" /\ plat = "Windows" THEN Len(WindowsOps(config)) ELSE 1

SurfaceFaults(plat, config) ==
    LET configs == to_browser_configs(config)
        written == {b \in Browsers : configs[b] # Nothing}
    IN  {NoFail}
          \cup UNION {{FailOf(b, k) : k \in 1..NumOps(plat, b, configs[b][1])} :
                        b \in written}

ApplyFaults(plat, config) == SurfaceFaults(plat, config) \cup {FailOf("state", 1)}

\* the faults that can strike an uninstall: one of the removal operations
\* on a browser recorded in the state file, or the deletion of the file
RemoveFaults(plat, file) ==
    LET recorded == IF file = Nothing THEN {}
                    ELSE {b \in Browsers : file[1].applied_policies[b] # Nothing}
    IN  {NoFail, FailOf("state", 1)}
          \cup {FailOf(b, 1) : b \in recorded}
          \cup {FailOf(b, k) : b \in recorded \ {"firefox"},
                               k \in IF plat = "Windows" THEN 2..3 ELSE {}}

-----------------------------------------------------------------------------
(* The agent: remote policy, agent state, poller (agent/*.rs)              *)

MaxTime == 3

MaxRetries == 2

DEFAULT_RETRY_INTERVAL == 60

AGENT_STATE_VERSION == "1.0"

\* The bodies the policy URL can serve and what serde_yaml makes of them.
PolicyTexts == {"p1", "p2", "not_yaml"}

EtagVariants == {1, 2}

PolicyP1 ==
    [policies |-> <<[browsers |-> {"chrome", "firefox"},
                     disable_private_mode |-> None, disable_guest_mode |-> None,
                     extensions |-> <<[id |-> Single("a")]>>]>>]

PolicyP2 ==
    [policies |-> <<[browsers |-> {"chrome", "edge"},
                     disable_private_mode |-> Yes, disable_guest_mode |-> None,
                     extensions |-> <<[id |-> Single("b")]>>]>>]

serde_yaml_from_str(content) ==
    IF content = "p1" THEN Some(PolicyP1)
    ELSE IF content = "p2" THEN Some(PolicyP2)
    ELSE Nothing

\* Config::from_yaml_str: parse, then validate
from_yaml_str(content) ==
    LET parsed == serde_yaml_from_str(content)
    IN  IF parsed = Nothing THEN [ok |-> FALSE, config |-> Nothing]
        ELSE IF ~validate_config(parsed[1]) THEN [ok |-> FALSE, config |-> Nothing]
        ELSE [ok |-> TRUE, config |-> parsed]

\* "sha256:" followed by the hex digest of the content bytes
compute_yaml_hash(content) == Sha256(content)

\* The ETag header of a response: the server derives it from the body it
\* serves, and may change it without changing the body.
ETagOf(srv) == Some(<<srv.text, srv.variant>>)

\* what can go wrong with a request: no connection, 404, 401/403
FetchFaults == {"none", "connect", "not_found", "denied"}

\* GitHubPoller::fetch_policy: a conditional GET with the stored ETag; every
\* failure, whatever its cause, comes back as the same anyhow error type
fetch_policy(srv, etag, fault) ==
    IF fault # "none"
    THEN [kind |-> "Err", error |-> fault, content |-> None, etag |-> Nothing]
    ELSE IF etag # Nothing /\ etag = ETagOf(srv)
    THEN [kind |-> "NotModified", error |-> "none", content |-> None,
          etag |-> Nothing]
    ELSE [kind |-> "Updated", error |-> "none", content |-> srv.text,
          etag |-> ETagOf(srv)]

\* AgentState::new()
AgentState_new ==
    [version |-> AGENT_STATE_VERSION,
     machine_id |-> "uuid",
     config_hash |-> Nothing,
     last_updated |-> Nothing,
     last_checked |-> Nothing,
     github_etag |-> Nothing,
     applied_policies |-> DefaultAppliedPolicies]

\* what a file holds after File::create and before write_all has finished
Truncated == [truncated |-> TRUE]

IsComplete(file) == "version" \in DOMAIN file[1]

\* AgentState::load(): Ok(None) for an absent file or another version, an
\* error for a file that does not parse
AgentState_load(file) ==
    IF file = Nothing THEN [ok |-> TRUE, state |-> Nothing]
    ELSE IF ~IsComplete(file) THEN [ok |-> FALSE, state |-> Nothing]
    ELSE IF file[1].version # AGENT_STATE_VERSION THEN [ok |-> TRUE, state |-> Nothing]
    ELSE [ok |-> TRUE, state |-> file]

\* a 304 handler that also forgets the stored ETag
update_checked_DropsEtag(state, t) ==
    [state EXCEPT !.last_checked = Some(t), !.github_etag = Nothing]

update_checked(state, t) ==
    [state EXCEPT !.last_checked = Some(t)]

\* an update that stores the new ETag beside the hash it had
update_applied_KeepsHash(state, config_hash, etag, applied_policies, t) ==
    [state EXCEPT !.last_updated = Some(t),
                  !.last_checked = Some(t),
                  !.github_etag = etag,
                  !.applied_policies = applied_policies]

update_applied(state, config_hash, etag, applied_policies, t) ==
    [state EXCEPT !.config_hash = Some(config_hash),
                  !.last_updated = Some(t),
                  !.last_checked = Some(t),
                  !.github_etag = etag,
                  !.applied_policies = applied_policies]

\* an update that keeps the ETag it had
update_etag_KeepsEtag(state, etag, t) ==
    [state EXCEPT !.last_checked = Some(t)]

update_etag(state, etag, t) ==
    [state EXCEPT !.github_etag = etag, !.last_checked = Some(t)]

RECURSIVE Pow2(_)
Pow2(n) == IF n = 0 THEN 1 ELSE 2 * Pow2(n - 1)

\* a backoff that doubles once too often
backoff_secs_OffByOne(retry_interval, n) == retry_interval * Pow2(n)

\* config.agent.retry_interval * 2_u64.pow(retries - 1)
backoff_secs(retry_interval, n) == retry_interval * Pow2(n - 1)

\* What the current attempt (one call of check_and_apply_policy) has done so
\* far: the file and the surfaces it started from, the branch it took, what
\* it fetched, whether it parsed / reconciled, and the surface operations
\* (browser, what was written) it issued, in order.  after_failure is the
\* content whose apply failed in the attempt before this one.
NoIter ==
    [path |-> "none", result |-> "none",
     before |-> Nothing, surface_before |-> [b \in Browsers |-> AbsentSurface(b)],
     time |-> 0, content |-> None, etag |-> Nothing,
     parsed |-> FALSE, reconciled |-> FALSE, write_failed |-> FALSE,
     attempted |-> <<>>, ops |-> <<>>, new_pair |-> Nothing,
     after_failure |-> None]

\* the record the next attempt starts with
NextIter(last) ==
    [NoIter EXCEPT !.after_failure = IF last.write_failed THEN last.content
                                     ELSE None]

-----------------------------------------------------------------------------
(* Local commands (commands/local.rs)                                      *)

\* What a command reported.  `attempted` lists the browsers whose surface
\* the command tried to write or remove and `planned` those the document
\* configures; `repeat` records that the run re-applies the document of the
\* successful apply just before it, `clean` that no fault has struck so far.
NoOp == [op |-> "none", result |-> "none", planned |-> <<>>,
         attempted |-> <<>>, failed |-> {}, repeat |-> FALSE, clean |-> TRUE]

PlannedBrowsers(config) ==
    LET configs == to_browser_configs(config)
        at(b) == IF configs[b] # Nothing THEN <<b>> ELSE <<>>
    IN  at("chrome") \o at("firefox") \o at("edge")

RecordedBrowsers(file) ==
    LET at(b) == IF file # Nothing /\ file[1].applied_policies[b] # Nothing
                 THEN <<b>> ELSE <<>>
    IN  at("chrome") \o at("firefox") \o at("edge")

\* `apply --config <config> [--dry-run]`
install_policies(config, dry_run, order, fail) ==
    LET current_state == load_state(stateFile)
        config_hash   == compute_config_hash(config, order)
        needs_update  == IF current_state # Nothing
                         THEN current_state[1].config_hash # config_hash
                         ELSE TRUE
        repeat        == /\ ~dry_run
                         /\ lastOp.op = "install"
                         /\ lastOp.result \in {"applied", "unchanged"}
                         /\ stateFile # Nothing
                         /\ stateFile[1].config_hash[2].json = config
        outcome(result, planned, attempted) ==
            [op |-> "install", result |-> result, planned |-> planned,
             attempted |-> attempted, failed |-> {}, repeat |-> repeat,
             clean |-> (lastOp.clean /\ fail = NoFail)]
    IN  /\ validate_config(config)
        /\ IF ~needs_update /\ ~dry_run
           THEN /\ lastOp' = outcome("unchanged", <<>>, <<>>)
                /\ UNCHANGED <<surface, stateFile>>
           ELSE IF dry_run
           THEN /\ lastOp' = outcome("dry_run", <<>>, <<>>)
                /\ UNCHANGED <<surface, stateFile>>
           ELSE LET r == apply_policies(platform, surface, config, fail)
                    planned == PlannedBrowsers(config)
                IN  /\ surface' = r.surface
                    /\ IF r.ok /\ fail["state"] = 0
                       THEN /\ stateFile' = Some(create_state(config, r.applied, order))
                            /\ lastOp' = outcome("applied", planned, r.attempted)
                       ELSE /\ stateFile' = stateFile
                            /\ lastOp' = outcome("error", planned, r.attempted)
        /\ UNCHANGED <<trackerVars, pureVars, platform, daemonVars>>

\* `apply --uninstall [--dry-run]`
uninstall_policies(dry_run, fail) ==
    LET state == load_state(stateFile)
        outcome(result, attempted, failed) ==
            [op |-> "uninstall", result |-> result, planned |-> <<>>,
             attempted |-> attempted, failed |-> failed, repeat |-> FALSE,
             clean |-> (lastOp.clean /\ fail = NoFail)]
    IN  /\ IF state = Nothing
           THEN /\ lastOp' = outcome("not_installed", <<>>, {})
                /\ UNCHANGED <<surface, stateFile>>
           ELSE IF dry_run
           THEN /\ lastOp' = outcome("dry_run", <<>>, {})
                /\ UNCHANGED <<surface, stateFile>>
           ELSE LET r == remove_policies(platform, surface, state[1], fail)
                IN  /\ surface' = r.surface
                    /\ IF ~r.ok
                       THEN /\ stateFile' = stateFile
                            /\ lastOp' = outcome("error", r.attempted, r.failed)
                       ELSE IF fail["state"] # 0
                       THEN /\ stateFile' = stateFile
                            /\ lastOp' = outcome("error", r.attempted, {"state"})
                       ELSE /\ stateFile' = Nothing
                            /\ lastOp' = outcome("removed", r.attempted, {})
        /\ UNCHANGED <<trackerVars, pureVars, platform, daemonVars>>

Install ==
    \E config \in Docs, dry_run \in BOOLEAN :
      \E order \in MapOrders(config),
         fail \in IF dry_run THEN {NoFail} ELSE ApplyFaults(platform, config) :
        install_policies(config, dry_run, order, fail)

Uninstall ==
    \E dry_run \in BOOLEAN :
      \E fail \in IF dry_run THEN {NoFail} ELSE RemoveFaults(platform, stateFile) :
        uninstall_policies(dry_run, fail)

\* The time-limit tracker is not constructed.
PureIdle ==
    /\ translated = Nothing
    /\ preview = Nothing
    /\ scheduler = Nothing
    /\ loops = Nothing
    /\ mutex = Nothing

TrackerIdle ==
    /\ tlConfig = Nothing
    /\ tlState = Nothing
    /\ tracker = Nothing
    /\ clock = Nothing
    /\ tick = Nothing
    /\ tlFile = Nothing
    /\ gate = Nothing
    /\ PureIdle

DaemonIdle ==
    /\ tmpFile = Nothing
    /\ agentConfig = [max_retries |-> 0, retry_interval |-> DEFAULT_RETRY_INTERVAL]
    /\ server = [text |-> "p1", variant |-> 1]
    /\ pc = "stopped"
    /\ mem = Nothing
    /\ retries = 0
    /\ backoff = 0
    /\ iter = NoIter
    /\ now = 0

Init ==
    /\ platform \in Platforms
    /\ surface = [b \in Browsers |-> AbsentSurface(b)]
    /\ stateFile = Nothing
    /\ lastOp = NoOp
    /\ DaemonIdle
    /\ TrackerIdle

Next == Install \/ Uninstall

Spec == Init /\ [][Next]_vars

-----------------------------------------------------------------------------
(* The daemon (agent/daemon.rs)                                            *)

\* the attempt ends with an error before anything is saved
Failed(start, path) ==
    /\ iter' = [start EXCEPT !.path = path, !.result = "err"]
    /\ pc' = "returned"
    /\ mem' = Nothing

\* the attempt goes on to state.save()
Saving(start, path, state) ==
    /\ iter' = [start EXCEPT !.path = path, !.result = "saving"]
    /\ pc' = "save_create"
    /\ mem' = Some(state)

\* check_and_apply_policy, up to the call of state.save()
check_and_apply_policy(fetch_fault, fail) ==
    LET loaded == AgentState_load(stateFile)
        state  == IF loaded.state = Nothing THEN AgentState_new ELSE loaded.state[1]
        t      == now + 1
        start  == [iter EXCEPT
                     !.before = stateFile, !.surface_before = surface, !.time = t]
    IN  /\ now < MaxTime
        /\ now' = t
        /\ IF ~loaded.ok
           THEN Failed(start, "load_error") /\ UNCHANGED surface
           ELSE LET result == fetch_policy(server, state.github_etag, fetch_fault)
                    fetched == [start EXCEPT !.content = result.content,
                                             !.etag = result.etag]
                IN  IF result.kind = "Err"
                    THEN Failed(start, result.error) /\ UNCHANGED surface
                    ELSE IF result.kind = "NotModified"
                    THEN /\ Saving(start, "not_modified", update_checked(state, t))
                         /\ UNCHANGED surface
                    ELSE LET new_hash == compute_yaml_hash(result.content)
                         IN  IF state.config_hash = Some(new_hash)
                             THEN /\ Saving(fetched, "same_hash",
                                            update_etag(state, result.etag, t))
                                  /\ UNCHANGED surface
                             ELSE LET policy_config == from_yaml_str(result.content)
                                      parsed == [fetched EXCEPT !.parsed = TRUE]
                                  IN  IF ~policy_config.ok
                                      THEN /\ Failed(parsed, "parse_error")
                                           /\ UNCHANGED surface
                                      ELSE LET r == apply_policy_config(platform, surface,
                                                      policy_config.config[1], fail)
                                               applying ==
                                                 [parsed EXCEPT
                                                    !.reconciled = TRUE,
                                                    !.write_failed = r.write_failed,
                                                    !.attempted = r.attempted,
                                                    !.ops = r.ops,
                                                    !.new_pair = Some(<<Some(new_hash),
                                                                        r.applied>>)]
                                           IN  /\ surface' = r.surface
                                               /\ IF ~r.ok
                                                  THEN Failed(applying, "apply_error")
                                                  ELSE Saving(applying, "applied",
                                                         update_applied(state, new_hash,
                                                           result.etag, r.applied, t))
        /\ UNCHANGED <<trackerVars, pureVars, platform, stateFile, tmpFile, lastOp, agentConfig, server,
                       retries, backoff>>

\* the surface faults that can strike the apply of what the server serves
DaemonFaults(fetch_fault) ==
    LET policy_config == from_yaml_str(server.text)
    IN  IF fetch_fault = "none" /\ policy_config.ok
        THEN SurfaceFaults(platform, policy_config.config[1])
        ELSE {NoFail}

\* a second attempt started while the first is still saving its state
CheckAndApply_Reentrant ==
    /\ pc \in {"check", "save_write"}
    /\ \E fetch_fault \in FetchFaults :
         \E fail \in DaemonFaults(fetch_fault) :
           check_and_apply_policy(fetch_fault, fail)

\* The loop of check_and_apply_with_retry awaits each call of
\* check_and_apply_policy before it goes on: an attempt starts only from the
\* top of the loop.
CheckAndApply ==
    /\ pc = "check"
    /\ \E fetch_fault \in FetchFaults :
         \E fail \in DaemonFaults(fetch_fault) :
           check_and_apply_policy(fetch_fault, fail)

\* state.save() returns an error
SaveFailed ==
    /\ iter' = [iter EXCEPT !.result = "err"]
    /\ pc' = "returned"

\* a write that creates (truncates) the state file itself
atomic_write_create_InPlace ==
    /\ pc = "save_create"
    /\ stateFile' = Some(Truncated)
    /\ pc' = "save_write"
    /\ UNCHANGED <<trackerVars, pureVars, platform, surface, tmpFile, lastOp, agentConfig, server, mem,
                   retries, backoff, iter, now>>

\* atomic_write: File::create(&temp_path)
atomic_write_create ==
    /\ pc = "save_create"
    /\ \E ok \in BOOLEAN :
         IF ok THEN /\ tmpFile' = Some(Truncated)
                    /\ pc' = "save_write"
                    /\ UNCHANGED iter
         ELSE SaveFailed /\ UNCHANGED tmpFile
    /\ UNCHANGED <<trackerVars, pureVars, platform, surface, stateFile, lastOp, agentConfig, server, mem,
                   retries, backoff, now>>

\* atomic_write: file.write_all(content) and file.sync_all()
atomic_write_write ==
    /\ pc = "save_write"
    /\ \E ok \in BOOLEAN :
         IF ok THEN /\ tmpFile' = mem
                    /\ pc' = "save_rename"
                    /\ UNCHANGED iter
         ELSE SaveFailed /\ UNCHANGED tmpFile
    /\ UNCHANGED <<trackerVars, pureVars, platform, surface, stateFile, lastOp, agentConfig, server, mem,
                   retries, backoff, now>>

\* atomic_write: std::fs::rename(&temp_path, path)
atomic_write_rename ==
    /\ pc = "save_rename"
    /\ \E ok \in BOOLEAN :
         IF ok THEN /\ stateFile' = tmpFile
                    /\ tmpFile' = Nothing
                    /\ iter' = [iter EXCEPT !.result = "ok"]
                    /\ pc' = "returned"
         ELSE SaveFailed /\ UNCHANGED <<stateFile, tmpFile>>
    /\ UNCHANGED <<trackerVars, pureVars, platform, surface, lastOp, agentConfig, server, mem,
                   retries, backoff, now>>

\* a loop that gives up for good once the retries are used up
check_and_apply_with_retry_Exits ==
    /\ pc = "returned"
    /\ IF iter.result = "ok"
       THEN pc' = "sleep" /\ UNCHANGED <<retries, backoff>>
       ELSE IF retries < agentConfig.max_retries
       THEN /\ retries' = retries + 1
            /\ backoff' = backoff_secs(agentConfig.retry_interval, retries + 1)
            /\ pc' = "backoff"
       ELSE pc' = "stopped" /\ UNCHANGED <<retries, backoff>>
    /\ UNCHANGED <<trackerVars, pureVars, platform, surface, stateFile, tmpFile, lastOp, agentConfig,
                   server, mem, iter, now>>

\* check_and_apply_with_retry: what the loop does with the attempt's result
check_and_apply_with_retry ==
    /\ pc = "returned"
    /\ IF iter.result = "ok"
       THEN pc' = "sleep" /\ UNCHANGED <<retries, backoff>>
       ELSE IF retries < agentConfig.max_retries
       THEN /\ retries' = retries + 1
            /\ backoff' = backoff_secs(agentConfig.retry_interval, retries + 1)
            /\ pc' = "backoff"
       ELSE pc' = "sleep" /\ UNCHANGED <<retries, backoff>>
    /\ UNCHANGED <<trackerVars, pureVars, platform, surface, stateFile, tmpFile, lastOp, agentConfig,
                   server, mem, iter, now>>

\* sleep(backoff).await is over: the loop calls check_and_apply_policy again
BackoffDone ==
    /\ pc = "backoff"
    /\ pc' = "check"
    /\ iter' = NextIter(iter)
    /\ UNCHANGED <<trackerVars, pureVars, platform, surface, stateFile, tmpFile, lastOp, agentConfig,
                   server, mem, retries, backoff, now>>

\* run_agent_daemon: scheduler.sleep_until_next_poll() is over; the next
\* iteration calls check_and_apply_with_retry afresh
SleepDone ==
    /\ pc = "sleep"
    /\ pc' = "check"
    /\ retries' = 0
    /\ backoff' = 0
    /\ iter' = NextIter(iter)
    /\ UNCHANGED <<trackerVars, pureVars, platform, surface, stateFile, tmpFile, lastOp, agentConfig,
                   server, mem, now>>

\* The process dies (power loss, kill) and the service is started again:
\* memory is lost, files and surfaces stay as they are.
Crash ==
    /\ pc # "check"
    /\ pc' = "check"
    /\ mem' = Nothing
    /\ retries' = 0
    /\ backoff' = 0
    /\ iter' = NextIter(iter)
    /\ UNCHANGED <<trackerVars, pureVars, platform, surface, stateFile, tmpFile, lastOp, agentConfig,
                   server, now>>

\* The administrator pushes a policy file, or the server re-issues its ETag.
\* The daemon sees the server only in fetch_policy, so a change is taken at
\* the moment before a fetch.
Publish ==
    /\ pc = "check"
    /\ now < MaxTime
    /\ \E text \in PolicyTexts, variant \in EtagVariants :
         /\ server' = [text |-> text, variant |-> variant]
         /\ server' # server
    /\ UNCHANGED <<trackerVars, pureVars, platform, surface, stateFile, tmpFile, lastOp, agentConfig,
                   pc, mem, retries, backoff, iter, now>>

InitDaemon ==
    /\ platform \in Platforms
    /\ surface = [b \in Browsers |-> AbsentSurface(b)]
    /\ stateFile = Nothing
    /\ tmpFile = Nothing
    /\ lastOp = NoOp
    /\ agentConfig \in [max_retries : 0..MaxRetries,
                        retry_interval : {DEFAULT_RETRY_INTERVAL}]
    /\ server = [text |-> "p1", variant |-> 1]
    /\ pc = "check"
    /\ mem = Nothing
    /\ retries = 0
    /\ backoff = 0
    /\ iter = NoIter
    /\ now = 0
    /\ TrackerIdle

NextDaemon ==
    \/ CheckAndApply
    \/ atomic_write_create
    \/ atomic_write_write
    \/ atomic_write_rename
    \/ check_and_apply_with_retry
    \/ BackoffDone
    \/ SleepDone
    \/ Crash
    \/ Publish

SpecDaemon == InitDaemon /\ [][NextDaemon]_vars

\* The task is scheduled and its timers fire: a returned attempt is handled,
\* a backoff sleep and an inter-poll sleep come to an end.
FairDaemon ==
    /\ WF_vars(check_and_apply_with_retry)
    /\ WF_vars(BackoffDone)
    /\ WF_vars(SleepDone)

SpecDaemonFair == SpecDaemon /\ FairDaemon

-----------------------------------------------------------------------------
(* Properties of the local commands                                        *)

\* ids a document asks for, over all its browsers
DocIds(config) ==
    LET configs == to_browser_configs(config)
    IN  UNION {{configs[b][1].extensions[i].id :
                   i \in 1..Len(configs[b][1].extensions)} :
               b \in {x \in Browsers : configs[x] # Nothing}}

AppliedDoc(file) == file[1].config_hash[2].json

\* C1: when a non-dry-run apply of a document directly follows a successful
\* apply of the same document, it writes no surface and reports "unchanged".
C1_ReapplyIsUnchanged ==
    lastOp.repeat => (lastOp.result = "unchanged" /\ lastOp.attempted = <<>>)

\* C2: after a successful apply of D_prev directly followed by a successful
\* apply of D_new, no extension id of D_prev that D_new does not mention is
\* left in any browser surface.
C2_NoStaleExtension ==
    [][(/\ lastOp.op = "install" /\ lastOp.result \in {"applied", "unchanged"}
        /\ lastOp.clean /\ lastOp'.clean
        /\ lastOp'.op = "install" /\ lastOp'.result = "applied"
        /\ stateFile # Nothing)
       => \A b \in Browsers :
            SurfaceIds(b, surface'[b])
              \cap (DocIds(AppliedDoc(stateFile)) \ DocIds(AppliedDoc(stateFile')))
            = {}]_vars

\* C5: an apply in which one browser's surface write fails still attempts
\* the surfaces of all the browsers the document configures.
C5_FailureDoesNotShortCircuit ==
    (lastOp.op = "install" /\ lastOp.result = "error")
        => lastOp.attempted = lastOp.planned

\* C6: after an uninstall that follows only successful applies, the state
\* file is gone and no browser surface holds an entry.
C6_UninstallLeavesNothing ==
    (lastOp.op = "uninstall" /\ lastOp.result = "removed" /\ lastOp.clean)
        => /\ stateFile = Nothing
           /\ \A b \in Browsers : ~HasEntries(b, surface[b])

-----------------------------------------------------------------------------
(* Properties of the daemon                                                *)

\* the (config_hash, applied_policies) pair a state file holds; an absent
\* file stands for AgentState::new()
Pair(file) ==
    IF file = Nothing
    THEN <<AgentState_new.config_hash, AgentState_new.applied_policies>>
    ELSE <<file[1].config_hash, file[1].applied_policies>>

\* the state the attempt started from
BeforeState == IF iter.before = Nothing THEN AgentState_new ELSE iter.before[1]

\* C3: the state file is never partially written, and every change of it
\* either keeps the (config_hash, applied_policies) pair or installs the
\* complete new pair of the apply in progress; a crash at any step changes
\* nothing in the file.
C3_HashAndAppliedChangeTogether ==
    [][stateFile' # stateFile =>
         /\ stateFile' # Nothing
         /\ IsComplete(stateFile')
         /\ \/ Pair(stateFile') = Pair(stateFile)
            \/ /\ iter.new_pair # Nothing
               /\ Pair(stateFile') = iter.new_pair[1]]_vars

\* a crash (or a failed rename) has left the new pair in the temporary file
\* while the state file still holds the previous pair
C3_Witness ==
    /\ pc = "check"
    /\ tmpFile # Nothing
    /\ IsComplete(tmpFile)
    /\ Pair(tmpFile) # Pair(stateFile)

\* C4: when a surface write of an apply has failed the state file is as it
\* was before the attempt, and the next attempt that fetches the same
\* document reconciles it again.
C4_FailedApplyKeepsState ==
    /\ (iter.write_failed => stateFile = iter.before)
    /\ ((iter.after_failure # None /\ iter.content = iter.after_failure)
           => iter.reconciled)

C4_Witness ==
    /\ iter.after_failure # None
    /\ iter.content = iter.after_failure
    /\ iter.reconciled
    /\ iter.write_failed
    /\ iter.before # Nothing

\* C8: an attempt answered with 304 writes no surface and reconciles
\* nothing; once saved, the state file differs from the one before the
\* attempt in last_checked only.
C8_NotModifiedTouchesLastCheckedOnly ==
    iter.path = "not_modified" =>
        /\ surface = iter.surface_before
        /\ ~iter.parsed /\ ~iter.reconciled
        /\ IF iter.result = "ok"
           THEN stateFile = Some([BeforeState EXCEPT !.last_checked = Some(iter.time)])
           ELSE stateFile = iter.before

C8_Witness ==
    /\ iter.path = "not_modified"
    /\ iter.result = "ok"
    /\ stateFile # iter.before
    /\ stateFile[1].config_hash # Nothing

\* C9: an attempt answered with 200 and a body whose hash is the stored
\* config_hash parses nothing, reconciles nothing and writes no surface;
\* once saved, config_hash and applied_policies are as before and the
\* ETag of the response is stored.
C9_SameHashStoresEtagOnly ==
    iter.path = "same_hash" =>
        /\ surface = iter.surface_before
        /\ ~iter.parsed /\ ~iter.reconciled
        /\ BeforeState.config_hash = Some(compute_yaml_hash(iter.content))
        /\ IF iter.result = "ok"
           THEN /\ Pair(stateFile) = Pair(iter.before)
                /\ stateFile[1].github_etag = iter.etag
           ELSE stateFile = iter.before

C9_Witness ==
    /\ iter.path = "same_hash"
    /\ iter.result = "ok"
    /\ stateFile[1].github_etag # BeforeState.github_etag

\* C10: retries never exceeds max_retries; retry number i is started only
\* after a backoff of retry_interval * 2^(i-1) seconds; a failed attempt is
\* followed by a backoff while retries are left and by the inter-poll sleep
\* when none is.
C10_RetryWithBackoff ==
    [][/\ retries' <= agentConfig.max_retries
       /\ (retries' >= 1 =>
             backoff' = agentConfig.retry_interval * 2^(retries' - 1))
       /\ (pc = "returned" /\ iter.result = "err" /\ pc' \notin {"returned", "check"})
            => IF retries < agentConfig.max_retries
               THEN pc' = "backoff" /\ retries' = retries + 1
               ELSE pc' = "sleep" /\ retries' = retries
       /\ (pc' = "check" /\ pc # "check" /\ retries' >= 1)
            => (pc = "backoff" /\ retries' = retries /\ backoff' = backoff)]_vars

\* the second retry has failed as well and the daemon is in its inter-poll
\* sleep
C10_Witness ==
    /\ pc = "sleep"
    /\ iter.result = "err"
    /\ retries = 2
    /\ backoff = 2 * agentConfig.retry_interval

\* C11: an attempt that failed because the policy did not parse or
\* validate, or because the server answered 404 or 401/403, is not followed
\* by a backoff retry.
C11_NonRetryableNotRetried ==
    [][(/\ pc = "returned"
        /\ iter.result = "err"
        /\ iter.path \in {"parse_error", "not_found", "denied"})
          => pc' # "backoff"]_vars

\* C12: a failed attempt, whatever made it fail (a remote error, a policy
\* that does not parse, a surface write), is always followed by the daemon
\* standing at the start of another attempt.
C12_LoopNeverTerminates ==
    (pc = "returned" /\ iter.result = "err") ~> (pc = "check")

\* the server has refused the request, the retries are used up, and the
\* daemon is in its inter-poll sleep, from which the next iteration starts
C12_Witness ==
    /\ pc = "sleep"
    /\ iter.result = "err"
    /\ iter.path = "denied"
    /\ ENABLED SleepDone

\* an apply has written surfaces and its state is not yet persisted
ApplyInFlight ==
    /\ pc \in {"save_create", "save_write", "save_rename"}
    /\ iter.path = "applied"

\* C13: while an apply is in flight no other attempt starts, and the
\* inter-poll sleep that precedes the next iteration is entered only after
\* the attempt has ended, with the state of a successful apply persisted.
C13_OneApplyInFlight ==
    [][/\ ApplyInFlight => (now' = now /\ iter'.time \in {iter.time, 0})
       /\ pc' = "sleep" =>
            /\ iter'.result \in {"ok", "err"}
            /\ (iter'.path = "applied" /\ iter'.result = "ok")
                 => Pair(stateFile') = iter'.new_pair[1]]_vars

C13_Witness ==
    /\ pc = "sleep"
    /\ iter.path = "applied"
    /\ iter.result = "ok"
    /\ Pair(stateFile) = iter.new_pair[1]
    /\ ENABLED SleepDone

BrowserRank(browser) ==
    IF browser = "chrome" THEN 1 ELSE IF browser = "firefox" THEN 2 ELSE 3

\* C14: the surface operations of an apply go Chrome, Firefox, Edge, and
\* on one browser's surface no privacy flag is written after the extension
\* list.
C14_FixedOperationOrder ==
    \A i, j \in 1..Len(iter.ops) :
        i < j =>
          /\ BrowserRank(iter.ops[i][1]) <= BrowserRank(iter.ops[j][1])
          /\ ~(/\ iter.ops[i][1] = iter.ops[j][1]
               /\ iter.ops[i][2] = "extensions"
               /\ iter.ops[j][2] \in {"private", "guest"})

-----------------------------------------------------------------------------
(* The time-limit tracker (time_limits/)                                   *)

\* Bounds of the tracker model: wakes of the tick loop, UTC dates passed,
\* calls (select_child, grant_extension, reset_time) that change the state.
MaxTicks == 12

MaxDate == 1

MaxCalls == 1

\* The period of the tick loop and the seconds one tick accounts.
TICK_SECONDS == 10

TL_STATE_VERSION == "1.0"

ChildIds == {"kid1", "kid2"}

OsUsers == {"alice", "bob", "admin"}

\* chrono's weekday of a UTC date; date 0 of the model is a Friday.
DayNames == <<"friday", "saturday", "sunday", "monday", "tuesday",
              "wednesday", "thursday">>

weekday_to_string(date) == DayNames[(date % 7) + 1]

is_weekend(day_name) == day_name \in {"saturday", "sunday"}

TimeLimit(hours, minutes) == [hours |-> hours, minutes |-> minutes]

to_seconds(limit) == (limit.hours * 3600) + (limit.minutes * 60)

RECURSIVE FirstCustom(_, _, _)
FirstCustom(custom, day_name, i) ==
    IF i > Len(custom) THEN Nothing
    ELSE IF day_name \in custom[i].days THEN Some(custom[i].limit)
    ELSE FirstCustom(custom, day_name, i + 1)

get_limit_for_day(child, day_name) ==
    LET custom == FirstCustom(child.limits.custom, day_name, 1)
    IN  IF custom # Nothing THEN custom[1]
        ELSE IF is_weekend(day_name) THEN child.limits.weekend
        ELSE child.limits.weekday

get_limit_for_today(child, date) == get_limit_for_day(child, weekday_to_string(date))

\* The two child profiles of the model.  kid1 has a weekday limit of two
\* minutes and a weekend limit of one; kid2 one minute every day but
\* Sunday, by a custom rule.
Kid1(shared) ==
    [id |-> "kid1", name |-> "Alice",
     os_users |-> IF shared THEN {} ELSE {"alice"},
     limits |-> [weekday |-> TimeLimit(0, 2), weekend |-> TimeLimit(0, 1),
                 custom |-> <<>>],
     warnings |-> <<1>>,
     grace_period |-> 20]

Kid2(shared) ==
    [id |-> "kid2", name |-> "Bob",
     os_users |-> IF shared THEN {} ELSE {"bob"},
     limits |-> [weekday |-> TimeLimit(0, 1), weekend |-> TimeLimit(0, 1),
                 custom |-> <<[days |-> {"sunday"}, limit |-> TimeLimit(0, 2)]>>],
     warnings |-> <<1, 0>>,
     grace_period |-> 0]

TimeLimitsConfig(shared) ==
    [admin |-> [admin_accounts |-> {"admin"}],
     children |-> <<Kid1(shared), Kid2(shared)>>,
     shared_login |-> [enabled |-> shared]]

\* validate_child_profile: the warning thresholds are strictly descending.
validate_child_profile(child) ==
    \A i \in 2..Len(child.warnings) : child.warnings[i] < child.warnings[i - 1]

validate_tl_config(config) ==
    /\ Len(config.children) > 0
    /\ \A i, j \in 1..Len(config.children) :
         config.children[i].id = config.children[j].id => i = j
    /\ \A i \in 1..Len(config.children) :
         /\ validate_child_profile(config.children[i])
         /\ (config.children[i].os_users = {}) <=> config.shared_login.enabled

\* config.children.iter().find(|c| c.id == child_id)
find_child(config, child_id) ==
    LET hits == {i \in 1..Len(config.children) : config.children[i].id = child_id}
    IN  IF hits = {} THEN Nothing
        ELSE Some(config.children[CHOOSE i \in hits : \A j \in hits : i <= j])

\* TimeLimitsState.  `children` is the Vec<ChildState> as a function from
\* the ids it holds (ids are unique in it) to the child's DayUsage.
NoChildren == [c \in {} |-> Nothing]

TimeLimitsState_new(date) ==
    [version |-> TL_STATE_VERSION, state_date |-> date, children |-> NoChildren,
     active_session |-> Nothing, admin_overrides |-> <<>>]

DayUsage_new(date) ==
    [date |-> date, used_seconds |-> 0, remaining_seconds |-> 0,
     sessions |-> <<>>, warnings_shown |-> <<>>, locked_at |-> Nothing]

needs_daily_reset(state, date) == state.state_date # date

reset_for_new_day(state, date) ==
    [state EXCEPT !.state_date = date,
                  !.children = [c \in DOMAIN state.children |-> DayUsage_new(date)],
                  !.active_session = Nothing,
                  !.admin_overrides = <<>>]

get_or_create_child(state, id, date) ==
    IF id \in DOMAIN state.children THEN state
    ELSE [state EXCEPT !.children =
            [c \in DOMAIN state.children \cup {id} |->
               IF c = id THEN DayUsage_new(date) ELSE state.children[c]]]

add_session(today, start, end) ==
    [today EXCEPT !.sessions = Append(@, [start |-> start, end |-> end,
                                          duration_seconds |-> end - start]),
                  !.used_seconds = @ + (end - start)]

InSeq(x, seq) == \E i \in 1..Len(seq) : seq[i] = x

\* The key "{}min" of a threshold is written as the threshold itself.
should_show_warning(today, threshold_minutes) ==
    ~InSeq(threshold_minutes, today.warnings_shown)

mark_warning_shown(today, threshold_minutes) ==
    IF InSeq(threshold_minutes, today.warnings_shown) THEN today
    ELSE [today EXCEPT !.warnings_shown = Append(@, threshold_minutes)]

is_locked(today) == today.locked_at # Nothing

lock(today, at) ==
    IF today.locked_at = Nothing THEN [today EXCEPT !.locked_at = Some(at)] ELSE today

unlock(today) == [today EXCEPT !.locked_at = Nothing]

ActiveSession_new(child_id, at) ==
    [child_id |-> child_id, session_start |-> at, last_activity |-> at,
     paused |-> FALSE]

AdminOverride(child_id, type, additional_seconds, date) ==
    [child_id |-> child_id, type |-> type,
     additional_seconds |-> additional_seconds, granted_at |-> date]

RECURSIVE SumOverrides(_, _, _, _)
SumOverrides(overrides, child_id, date, i) ==
    IF i > Len(overrides) THEN 0
    ELSE (IF /\ overrides[i].child_id = child_id
             /\ overrides[i].granted_at = date
             /\ overrides[i].additional_seconds # Nothing
          THEN overrides[i].additional_seconds[1] ELSE 0)
         + SumOverrides(overrides, child_id, date, i + 1)

get_today_overrides(child_id, overrides, date) ==
    SumOverrides(overrides, child_id, date, 1)

Max(a, b) == IF a >= b THEN a ELSE b

calculate_remaining_time_Unclamped(child, used_seconds, additional_seconds, date) ==
    to_seconds(get_limit_for_today(child, date)) + additional_seconds - used_seconds

calculate_remaining_time(child, used_seconds, additional_seconds, date) ==
    LET limit_seconds == to_seconds(get_limit_for_today(child, date))
        total_limit   == limit_seconds + additional_seconds
    IN  Max(total_limit - used_seconds, 0)

\* auto_detect_child: individual login mode opens a session for the child
\* the process's OS user belongs to.
auto_detect_child(config, state, os_user, at) ==
    LET hits == {i \in 1..Len(config.children) : os_user \in config.children[i].os_users}
        child == config.children[CHOOSE i \in hits : \A j \in hits : i <= j]
    IN  IF config.shared_login.enabled THEN state
        ELSE IF os_user \in config.admin.admin_accounts THEN state
        ELSE IF hits = {} THEN state
        ELSE get_or_create_child(
                 [state EXCEPT !.active_session = Some(ActiveSession_new(child.id, at.secs))],
                 child.id, at.date)

end_session_internal_Dropped(state, child_id, at) == state

end_session_internal(state, child_id, at) ==
    IF child_id \in DOMAIN state.children /\ state.active_session # Nothing
    THEN [state EXCEPT !.children[child_id] =
              add_session(@, state.active_session[1].session_start, at.secs)]
    ELSE state

WarningDue_NoLowerBound(remaining_seconds, warning_minutes) ==
    remaining_seconds <= warning_minutes * 60

\* The test of the warnings loop for one threshold.
WarningDue(remaining_seconds, warning_minutes) ==
    LET warning_seconds == warning_minutes * 60
    IN  /\ remaining_seconds <= warning_seconds
        /\ remaining_seconds > warning_seconds - 10

\* The warnings loop of track_iteration: the thresholds it calls
\* send_warning for, the DayUsage it leaves, and whether a call failed (the
\* loop then stops, `?`).
RECURSIVE CheckWarnings(_, _, _, _, _)
CheckWarnings(today, warnings, remaining_seconds, notify_fails, i) ==
    IF i > Len(warnings) THEN [today |-> today, invoked |-> <<>>, ok |-> TRUE]
    ELSE IF /\ WarningDue(remaining_seconds, warnings[i])
            /\ should_show_warning(today, warnings[i])
         THEN IF notify_fails
              THEN [today |-> today, invoked |-> <<warnings[i]>>, ok |-> FALSE]
              ELSE LET rest == CheckWarnings(mark_warning_shown(today, warnings[i]),
                                             warnings, remaining_seconds,
                                             notify_fails, i + 1)
                   IN  [rest EXCEPT !.invoked = <<warnings[i]>> \o @]
         ELSE CheckWarnings(today, warnings, remaining_seconds, notify_fails, i + 1)

Outcome(state, path, result, child, reset, invoked, final, saved) ==
    [state |-> state, path |-> path, result |-> result, child |-> child,
     reset |-> reset, invoked |-> invoked, final |-> final, saved |-> saved]

\* track_iteration up to the grace-period sleep.  `at` is Utc::now() of the
\* iteration; notify_fails says whether the notification command fails.
\* `saved` is what the last save_state of the iteration wrote, if any.
track_iteration(config, state, at, os_user, notify_fails) ==
    LET reset == needs_daily_reset(state, at.date)
        s1    == IF reset THEN reset_for_new_day(state, at.date) ELSE state
        rollover_saved == IF reset THEN Some(s1) ELSE Nothing
    IN  IF s1.active_session = Nothing
        THEN Outcome(auto_detect_child(config, s1, os_user, at),
                     "no_session", "ok", None, reset, <<>>, FALSE, rollover_saved)
        ELSE
        LET session  == s1.active_session[1]
            child_id == session.child_id
            found    == find_child(config, child_id)
        IN  IF session.paused
            THEN Outcome(s1, "session_paused", "ok", child_id, reset, <<>>, FALSE,
                         rollover_saved)
            ELSE IF found = Nothing
            THEN Outcome(s1, "child_missing", "err", child_id, reset, <<>>, FALSE,
                         rollover_saved)
            ELSE
            LET child_config == found[1]
                additional_seconds ==
                    get_today_overrides(child_id, s1.admin_overrides, at.date)
                s2    == get_or_create_child(s1, child_id, at.date)
                today == s2.children[child_id]
            IN  IF is_locked(today)
                THEN Outcome(s2, "locked", "ok", child_id, reset, <<>>, FALSE,
                         rollover_saved)
                ELSE
                LET used_seconds == today.used_seconds + 10
                    remaining_seconds ==
                        calculate_remaining_time(child_config, used_seconds,
                                                 additional_seconds, at.date)
                    counted == [today EXCEPT !.used_seconds = used_seconds,
                                             !.remaining_seconds = remaining_seconds]
                    w  == CheckWarnings(counted, child_config.warnings,
                                        remaining_seconds, notify_fails, 1)
                    s3 == [s2 EXCEPT !.children[child_id] = w.today]
                IN  IF ~w.ok
                    THEN Outcome(s3, "warning_failed", "err", child_id, reset,
                                 w.invoked, FALSE, rollover_saved)
                    ELSE IF remaining_seconds <= 0
                    THEN IF notify_fails
                         THEN Outcome(s3, "final_warning_failed", "err", child_id,
                                      reset, w.invoked, TRUE, rollover_saved)
                         ELSE Outcome(s3, "grace", "pending", child_id, reset,
                                      w.invoked, TRUE, rollover_saved)
                    ELSE Outcome(s3, "counted", "ok", child_id, reset,
                                 w.invoked, FALSE, Some(s3))

\* What the model records about the tracker's run: the calls made to the
\* enforcer (send_warning calls of the state's day and those delivered
\* since warnings_shown was last cleared, enforce_lock calls since the child
\* was last unlocked and whether the last of them failed, the time of the
\* final warning whose grace period is running), the calls that changed the state, and since when a child's
\* record has shown no remaining time without a lock.
NoCalls == [c \in ChildIds |-> <<>>]

NoTick ==
    [final_warning_at |-> -1, calls |-> 0,
     invoked |-> NoCalls, delivered |-> NoCalls,
     lock_calls |-> [c \in ChildIds |-> 0],
     lock_failed |-> [c \in ChildIds |-> FALSE],
     zero_at |-> [c \in ChildIds |-> -1]]

ZeroUnlocked(state, c) ==
    /\ c \in DOMAIN state.children
    /\ state.children[c].remaining_seconds = 0
    /\ ~is_locked(state.children[c])

ZeroAt(log, state, at) ==
    [c \in ChildIds |->
        IF ZeroUnlocked(state, c)
        THEN (IF log.zero_at[c] >= 0 THEN log.zero_at[c] ELSE at.secs)
        ELSE -1]

\* A failed enforce_lock is remembered for as long as the child's record
\* shows the lock it was to enforce.
LockFailed(log, state) ==
    [c \in ChildIds |->
        /\ log.lock_failed[c]
        /\ c \in DOMAIN state.children
        /\ is_locked(state.children[c])]

\* The log after an operation that left `state` at `at`.
Logged(log, state, at) ==
    [log EXCEPT !.zero_at = ZeroAt(log, state, at),
                !.lock_failed = LockFailed(log, state)]

ExtensionMinutes == {30}

StateLockFree_Always == TRUE

\* The state mutex is held by a tick for its whole iteration, the
\* grace-period sleep included: a call that locks the state waits for it.
StateLockFree == tracker.pc # "grace"

\* TimeTracker::start: refuses a running tracker, else spawns the tick loop.
Start ==
    /\ ~tracker.running
    /\ tracker' = [tracker EXCEPT !.running = TRUE, !.pc = "waiting"]
    /\ UNCHANGED <<policyVars, gate, tlConfig, tlState, clock, tick, tlFile>>

LoopAtInterval_Spawned == tracker.pc \in {"waiting", "grace"}

\* The loop awaits track_iteration: it is back at interval.tick() only when
\* the iteration has returned.
LoopAtInterval == tracker.pc = "waiting"

\* One wake of the tick loop, TICK_SECONDS after the previous one: the
\* process-wide pause flag skips the iteration, else track_iteration runs up
\* to its end or to its grace-period sleep.
Tick ==
    /\ LoopAtInterval
    /\ tracker.call = Nothing
    /\ clock.secs < MaxTicks * TICK_SECONDS
    /\ \E notify_fails \in BOOLEAN :
         LET at == [clock EXCEPT !.secs = @ + TICK_SECONDS]
             r  == track_iteration(tlConfig, tlState, at, tracker.os_user, notify_fails)
         IN  /\ clock' = at
             /\ IF tracker.paused
                THEN UNCHANGED <<tlState, tracker, tick, tlFile>>
                ELSE /\ tlState' = r.state
                     /\ tlFile' = IF r.saved # Nothing THEN r.saved ELSE tlFile
                     /\ tracker' = IF r.path = "grace"
                                   THEN [tracker EXCEPT !.pc = "grace",
                                                        !.grace_child = r.child]
                                   ELSE tracker
                     /\ tick' =
                          LET cleared == IF r.reset
                                         THEN [tick EXCEPT !.invoked = NoCalls,
                                                           !.delivered = NoCalls,
                                                           !.lock_calls = [c \in ChildIds |-> 0]]
                                         ELSE tick
                              base == Logged(cleared, r.state, at)
                          IN  IF r.child = None
                              THEN base
                              ELSE [base EXCEPT
                                      !.invoked[r.child] = @ \o r.invoked,
                                      !.delivered[r.child] =
                                          IF notify_fails THEN @ ELSE @ \o r.invoked,
                                      !.final_warning_at =
                                          IF r.path = "grace" THEN at.secs ELSE @]
    /\ UNCHANGED <<policyVars, gate, tlConfig>>

\* The end of the grace-period sleep: the child is marked locked, the
\* enforcer's lock action is invoked, and the state saved unless it failed
\* (`?` on enforce_lock).
GraceDone ==
    /\ tracker.pc = "grace"
    /\ \E lock_fails \in BOOLEAN :
         LET child_id     == tracker.grace_child
             child_config == find_child(tlConfig, child_id)[1]
             at == [clock EXCEPT !.secs = @ + child_config.grace_period]
             after == [tlState EXCEPT !.children[child_id] = lock(@, at.secs)]
         IN  /\ clock' = at
             /\ tlState' = after
             /\ tlFile' = IF lock_fails THEN tlFile ELSE Some(after)
             /\ tracker' = [tracker EXCEPT !.pc = "waiting", !.grace_child = None]
             /\ tick' = [Logged(tick, after, at)
                           EXCEPT !.final_warning_at = -1,
                                  !.lock_calls[child_id] = @ + 1,
                                  !.lock_failed[child_id] = lock_fails]
    /\ UNCHANGED <<policyVars, gate, tlConfig>>

\* The UTC date changes.
Midnight ==
    /\ clock.date < MaxDate
    /\ clock' = [clock EXCEPT !.date = @ + 1]
    /\ UNCHANGED <<policyVars, gate, tlConfig, tlState, tracker, tick, tlFile>>

SetSessionPaused_Never(state, paused) == state

SetSessionPaused(state, paused) ==
    IF state.active_session = Nothing THEN state
    ELSE [state EXCEPT !.active_session = Some([@[1] EXCEPT !.paused = paused])]

Pause ==
    /\ StateLockFree
    /\ tracker' = [tracker EXCEPT !.paused = TRUE]
    /\ tlState' = SetSessionPaused(tlState, TRUE)
    /\ tick' = Logged(tick, tlState', clock)
    /\ UNCHANGED <<policyVars, gate, tlConfig, clock, tlFile>>

Resume ==
    /\ StateLockFree
    /\ tracker' = [tracker EXCEPT !.paused = FALSE]
    /\ tlState' = SetSessionPaused(tlState, FALSE)
    /\ tick' = Logged(tick, tlState', clock)
    /\ UNCHANGED <<policyVars, gate, tlConfig, clock, tlFile>>

select_child(config, state, child_id, at) ==
    LET ended == IF state.active_session = Nothing THEN state
                 ELSE end_session_internal(state, state.active_session[1].child_id, at)
        opened == [ended EXCEPT !.active_session =
                                   Some(ActiveSession_new(child_id, at.secs))]
    IN  IF find_child(config, child_id) = Nothing \/ ~config.shared_login.enabled
        THEN [ok |-> FALSE, state |-> state]
        ELSE [ok |-> TRUE, state |-> get_or_create_child(opened, child_id, at.date)]

SelectChild ==
    /\ StateLockFree
    /\ tick.calls < MaxCalls
    /\ \E child_id \in ChildIds :
         LET r == select_child(tlConfig, tlState, child_id, clock)
         IN  /\ tlState' = r.state
             /\ tick' = [Logged(tick, r.state, clock)
                           EXCEPT !.calls = IF r.ok THEN @ + 1 ELSE @]
    /\ UNCHANGED <<policyVars, gate, tlConfig, tracker, clock, tlFile>>

grant_extension_Minutes(state, child_id, additional_minutes, password_ok, at) ==
    LET pushed == [state EXCEPT !.admin_overrides =
                      Append(@, AdminOverride(child_id, "extension",
                                              Some(additional_minutes), at.date))]
    IN  IF ~password_ok THEN [ok |-> FALSE, state |-> state]
        ELSE IF child_id \in DOMAIN state.children
        THEN [ok |-> TRUE, state |-> [pushed EXCEPT !.children[child_id] = unlock(@)]]
        ELSE [ok |-> TRUE, state |-> pushed]

grant_extension(state, child_id, additional_minutes, password_ok, at) ==
    LET pushed == [state EXCEPT !.admin_overrides =
                      Append(@, AdminOverride(child_id, "extension",
                                              Some(additional_minutes * 60), at.date))]
    IN  IF ~password_ok THEN [ok |-> FALSE, state |-> state]
        ELSE IF child_id \in DOMAIN state.children
        THEN [ok |-> TRUE, state |-> [pushed EXCEPT !.children[child_id] = unlock(@)]]
        ELSE [ok |-> TRUE, state |-> pushed]

GrantExtension ==
    /\ StateLockFree
    /\ tick.calls < MaxCalls
    /\ \E child_id \in ChildIds, additional_minutes \in ExtensionMinutes,
          password_ok \in BOOLEAN :
         LET r == grant_extension(tlState, child_id, additional_minutes,
                                  password_ok, clock)
         IN  /\ tlState' = r.state
             /\ tick' = [Logged(tick, r.state, clock)
                           EXCEPT !.calls = IF r.ok THEN @ + 1 ELSE @,
                                  !.lock_calls[child_id] =
                                      IF r.ok /\ child_id \in DOMAIN tlState.children
                                      THEN 0 ELSE @]
    /\ UNCHANGED <<policyVars, gate, tlConfig, tracker, clock, tlFile>>

\* grant_extension called while a tick sleeps through its grace period: the
\* password is verified, then the call waits for the state mutex the tick
\* holds.
GrantExtensionWaits ==
    /\ tracker.pc = "grace"
    /\ tracker.call = Nothing
    /\ tick.calls < MaxCalls
    /\ \E child_id \in ChildIds, additional_minutes \in ExtensionMinutes :
         tracker' = [tracker EXCEPT !.call =
                        Some([child_id |-> child_id,
                              additional_minutes |-> additional_minutes])]
    /\ UNCHANGED <<policyVars, gate, tlConfig, tlState, clock, tick, tlFile>>

\* The waiting grant_extension gets the state mutex when the tick releases
\* it (the mutex is fair: the call goes before the next tick).
GrantExtensionAcquires ==
    /\ tracker.pc = "waiting"
    /\ tracker.call # Nothing
    /\ LET child_id == tracker.call[1].child_id
           r == grant_extension(tlState, child_id,
                                tracker.call[1].additional_minutes, TRUE, clock)
       IN  /\ tlState' = r.state
           /\ tracker' = [tracker EXCEPT !.call = Nothing]
           /\ tick' = [Logged(tick, r.state, clock)
                         EXCEPT !.calls = @ + 1,
                                !.lock_calls[child_id] =
                                    IF child_id \in DOMAIN tlState.children
                                    THEN 0 ELSE @]
    /\ UNCHANGED <<policyVars, gate, tlConfig, clock, tlFile>>

reset_time(state, child_id, password_ok, at) ==
    IF ~password_ok \/ child_id \notin DOMAIN state.children
    THEN [ok |-> FALSE, state |-> state]
    ELSE [ok |-> TRUE,
          state |-> [state EXCEPT
              !.children[child_id] =
                  unlock([@ EXCEPT !.used_seconds = 0, !.sessions = <<>>,
                                   !.warnings_shown = <<>>]),
              !.admin_overrides =
                  Append(@, AdminOverride(child_id, "reset", Nothing, at.date))]]

ResetTime ==
    /\ StateLockFree
    /\ tick.calls < MaxCalls
    /\ \E child_id \in ChildIds, password_ok \in BOOLEAN :
         LET r == reset_time(tlState, child_id, password_ok, clock)
         IN  /\ tlState' = r.state
             /\ tick' = [Logged(tick, r.state, clock)
                           EXCEPT !.calls = IF r.ok THEN @ + 1 ELSE @,
                                  !.delivered[child_id] = IF r.ok THEN <<>> ELSE @,
                                  !.lock_calls[child_id] = IF r.ok THEN 0 ELSE @]
    /\ UNCHANGED <<policyVars, gate, tlConfig, tracker, clock, tlFile>>

\* get_state: a clone of the state, taken under the state mutex.
GetState ==
    /\ StateLockFree
    /\ UNCHANGED vars

\* state::load_state of the time limits: None for no file or another
\* version; a state of another day is reset and saved before it is returned.
load_tl_state(file, date) ==
    IF file = Nothing THEN [state |-> Nothing, file |-> file]
    ELSE IF file[1].version # TL_STATE_VERSION THEN [state |-> Nothing, file |-> file]
    ELSE IF needs_daily_reset(file[1], date)
    THEN [state |-> Some(reset_for_new_day(file[1], date)),
          file  |-> Some(reset_for_new_day(file[1], date))]
    ELSE [state |-> file, file |-> file]

\* commands::time_limits::grant_extension, the command line's entry point:
\* it loads the state file, pushes the override and clears the lock as the
\* tracker's grant_extension does, and saves the file.
cmd_grant_extension(config, file, child_id, minutes, password_ok, at) ==
    LET loaded == load_tl_state(file, at.date)
    IN  IF ~password_ok THEN [ok |-> FALSE, file |-> file]
        ELSE IF loaded.state = Nothing THEN [ok |-> FALSE, file |-> loaded.file]
        ELSE IF find_child(config, child_id) = Nothing
        THEN [ok |-> FALSE, file |-> loaded.file]
        ELSE [ok |-> TRUE,
              file |-> Some(grant_extension(loaded.state[1], child_id, minutes,
                                            TRUE, at).state)]

CmdGrantExtension ==
    /\ tick.calls < MaxCalls
    /\ \E child_id \in ChildIds, minutes \in ExtensionMinutes, password_ok \in BOOLEAN :
         LET r == cmd_grant_extension(tlConfig, tlFile, child_id, minutes,
                                      password_ok, clock)
         IN  /\ tlFile' = r.file
             /\ tick' = [tick EXCEPT !.calls = IF r.ok THEN @ + 1 ELSE @]
    /\ UNCHANGED <<policyVars, gate, tlConfig, tlState, tracker, clock>>

\* commands::time_limits::reset_time.
cmd_reset_time(config, file, child_id, password_ok, at) ==
    LET loaded == load_tl_state(file, at.date)
    IN  IF ~password_ok THEN [ok |-> FALSE, file |-> file]
        ELSE IF loaded.state = Nothing THEN [ok |-> FALSE, file |-> loaded.file]
        ELSE IF find_child(config, child_id) = Nothing
        THEN [ok |-> FALSE, file |-> loaded.file]
        ELSE IF child_id \notin DOMAIN loaded.state[1].children
        THEN [ok |-> FALSE, file |-> loaded.file]
        ELSE [ok |-> TRUE,
              file |-> Some(reset_time(loaded.state[1], child_id, TRUE, at).state)]

CmdResetTime ==
    /\ tick.calls < MaxCalls
    /\ \E child_id \in ChildIds, password_ok \in BOOLEAN :
         LET r == cmd_reset_time(tlConfig, tlFile, child_id, password_ok, clock)
         IN  /\ tlFile' = r.file
             /\ tick' = [tick EXCEPT !.calls = IF r.ok THEN @ + 1 ELSE @]
    /\ UNCHANGED <<policyVars, gate, tlConfig, tlState, tracker, clock>>

\* The state an earlier run of the day left in the state file under shared
\* login: kid1 was selected one tick before that run ended, and the tick
\* counted and saved.
SavedSession(config) ==
    track_iteration(config,
                    select_child(config, TimeLimitsState_new(0), "kid1",
                                 [date |-> 0, secs |-> 0 - TICK_SECONDS]).state,
                    [date |-> 0, secs |-> 0], "family", FALSE).state

\* run_time_limits_tracking: TimeTracker::new on the loaded state, or on a
\* fresh one when there is no state file: not running, not paused.
InitTracker ==
    /\ platform = "Linux"
    /\ surface = [b \in Browsers |-> AbsentSurface(b)]
    /\ stateFile = Nothing
    /\ lastOp = NoOp
    /\ DaemonIdle
    /\ \E shared \in BOOLEAN :
         /\ tlConfig = TimeLimitsConfig(shared)
         /\ tracker \in [running : {FALSE}, paused : {FALSE}, pc : {"none"},
                         grace_child : {None}, call : {Nothing},
                         os_user : IF shared THEN {"family"} ELSE OsUsers]
         /\ tlFile \in IF shared THEN {Nothing, Some(SavedSession(tlConfig))}
                        ELSE {Nothing}
    /\ validate_tl_config(tlConfig)
    /\ clock = [date |-> 0, secs |-> 0]
    /\ tlState = IF load_tl_state(tlFile, clock.date).state = Nothing
                 THEN TimeLimitsState_new(0)
                 ELSE load_tl_state(tlFile, clock.date).state[1]
    /\ tick = NoTick
    /\ gate = Nothing
    /\ PureIdle

NextTracker ==
    \/ Start
    \/ Tick
    \/ GraceDone
    \/ Midnight
    \/ Pause
    \/ Resume
    \/ SelectChild
    \/ GrantExtension
    \/ GrantExtensionWaits
    \/ GrantExtensionAcquires
    \/ ResetTime
    \/ GetState
    \/ CmdGrantExtension
    \/ CmdResetTime

SpecTracker == InitTracker /\ [][NextTracker]_vars

-----------------------------------------------------------------------------
(* Properties of the time-limit tracker                                    *)

Profile(c) == find_child(tlConfig, c)[1]

\* The seconds child c may use on `date`: the base limit of that day plus
\* the override seconds granted to c on it.
Budget(c, date) ==
    to_seconds(get_limit_for_today(Profile(c), date))
    + get_today_overrides(c, tlState.admin_overrides, date)

\* C15: in every reachable tracker state, every child's remaining_seconds
\* lies between 0 and the base limit plus the override seconds of the day
\* its usage record is for (child.today.date).
C15_RemainingWithinBudget ==
    \A c \in DOMAIN tlState.children :
        /\ 0 <= tlState.children[c].remaining_seconds
        /\ tlState.children[c].remaining_seconds
               <= Budget(c, tlState.children[c].date)

\* A child that used more than its budget shows no remaining time, not a
\* negative one.
C15_Witness ==
    \E c \in DOMAIN tlState.children :
        /\ tlState.children[c].used_seconds > Budget(c, tlState.children[c].date)
        /\ tlState.children[c].remaining_seconds = 0

\* C16: a child whose remaining_seconds is 0 is locked at the latest one
\* tick interval after its grace period: its record never shows 0 remaining
\* seconds without a lock for longer than grace_period + TICK_SECONDS.
C16_ZeroRemainingIsLocked ==
    \A c \in ChildIds :
        tick.zero_at[c] >= 0 =>
            clock.secs - tick.zero_at[c] <= Profile(c).grace_period + TICK_SECONDS

\* A wake of the tick loop.
TickStep == tracker.pc = "waiting" /\ clock'.secs = clock.secs + TICK_SECONDS

\* C17: every tick that finds the UTC date different from state_date, also
\* one taken while tracking is paused or no session is active, resets every
\* child's usage (used_seconds 0, no warnings shown), clears the session of
\* the day before and discards the overrides.
C17_EveryTickRollsOver ==
    [][(TickStep /\ tlState.state_date # clock'.date) =>
          /\ tlState'.state_date = clock'.date
          /\ tlState'.admin_overrides = <<>>
          /\ \A c \in DOMAIN tlState.children :
                /\ tlState'.children[c].used_seconds = 0
                /\ tlState'.children[c].warnings_shown = <<>>
          /\ \/ tlState'.active_session = Nothing
             \/ tlState'.active_session[1].session_start = clock'.secs]_vars

Count(seq, x) == Cardinality({i \in 1..Len(seq) : seq[i] = x})

Thresholds(c) == {Profile(c).warnings[i] : i \in 1..Len(Profile(c).warnings)}

\* The thresholds send_warning is called for, for child c, in a step.
Warned(c) ==
    IF Len(tick'.invoked[c]) > Len(tick.invoked[c])
    THEN {tick'.invoked[c][i] : i \in (Len(tick.invoked[c]) + 1)..Len(tick'.invoked[c])}
    ELSE {}

InWindow(remaining_seconds, w) ==
    /\ remaining_seconds <= w * 60
    /\ w * 60 < remaining_seconds + TICK_SECONDS

\* The tick at which the usage of child c, accumulated tick by tick with no
\* override, reset or closed session, reaches the limit of the day.
ReachesLimit(c) ==
    /\ TickStep
    /\ c \in DOMAIN tlState.children
    /\ tlState'.children[c].used_seconds = tlState.children[c].used_seconds + TICK_SECONDS
    /\ tlState'.children[c].used_seconds
           = to_seconds(get_limit_for_today(Profile(c), tlState'.children[c].date))
    /\ tlState'.children[c].sessions = <<>>
    /\ \A i \in 1..Len(tlState'.admin_overrides) :
           tlState'.admin_overrides[i].child_id # c

\* C18: the warning for a threshold w is sent at most once per child per
\* day, at the tick where remaining_seconds <= w*60 < remaining_seconds + T,
\* and a day in which usage accumulates up to the limit has sent exactly one
\* warning for every configured threshold.
C18_OneWarningPerThreshold ==
    [][\A c \in ChildIds :
          /\ \A w \in Thresholds(c) : Count(tick'.invoked[c], w) <= 1
          /\ \A w \in Warned(c) :
                InWindow(tlState'.children[c].remaining_seconds, w)
          /\ ReachesLimit(c) =>
                \A w \in Thresholds(c) : Count(tick'.invoked[c], w) = 1]_vars

\* C18 (amended): send_warning is called for w only at a tick where
\* remaining_seconds <= w*60 < remaining_seconds + T and w is not marked
\* shown; a delivered warning is marked, so at most one warning for w is
\* delivered between two clearings of warnings_shown (daily rollover,
\* reset_time); and a day in which usage accumulates tick by tick up to the
\* limit, with no override, reset or closed session, has called send_warning
\* exactly once for every threshold below the limit (w*60 < limit) and never
\* for the others.
C18_WarningsInWindow ==
    [][\A c \in ChildIds :
          /\ \A w \in Thresholds(c) : Count(tick'.delivered[c], w) <= 1
          /\ \A w \in Warned(c) :
                /\ InWindow(tlState'.children[c].remaining_seconds, w)
                /\ c \in DOMAIN tlState.children =>
                      ~InSeq(w, tlState.children[c].warnings_shown)
          /\ \A w \in Thresholds(c) :
                Count(tick'.delivered[c], w) = 1 =>
                    InSeq(w, tlState'.children[c].warnings_shown)
          /\ ReachesLimit(c) =>
                \A w \in Thresholds(c) :
                    Count(tick'.invoked[c], w) =
                        IF w * 60 < tlState'.children[c].used_seconds THEN 1 ELSE 0]_vars

\* A child reached its limit after the warning of a threshold of a minute or
\* more was delivered to it, once.
C18_Witness ==
    \E c \in DOMAIN tlState.children :
        /\ tlState.children[c].used_seconds
               = to_seconds(get_limit_for_today(Profile(c), tlState.children[c].date))
        /\ tlState.children[c].remaining_seconds = 0
        /\ tlState.children[c].sessions = <<>>
        /\ tlState.admin_overrides = <<>>
        /\ \E w \in Thresholds(c) : w >= 1 /\ Count(tick.delivered[c], w) = 1
        /\ \A w \in Thresholds(c) : Count(tick.invoked[c], w) = 1

Locked(state, c) ==
    c \in DOMAIN state.children /\ state.children[c].locked_at # Nothing

\* The tick that counts TICK_SECONDS for child c.
Counted(c) ==
    /\ TickStep
    /\ c \in DOMAIN tlState'.children
    /\ tlState'.children[c].used_seconds =
           (IF c \in DOMAIN tlState.children
            THEN tlState.children[c].used_seconds ELSE 0) + TICK_SECONDS

\* C19: the tick that finds a child's time exhausted leads to exactly one
\* lock invocation, made no earlier than grace_period seconds after the
\* final warning and leaving locked_at set; while the child stays locked no
\* further lock invocation is made for it.
C19_OneLockAfterGrace ==
    [][\A c \in ChildIds :
          /\ (Counted(c) /\ tlState'.children[c].remaining_seconds = 0) =>
                /\ tracker'.pc = "grace"
                /\ tracker'.grace_child = c
                /\ tick'.final_warning_at = clock'.secs
          /\ tick'.lock_calls[c] > tick.lock_calls[c] =>
                /\ tracker.pc = "grace"
                /\ tracker.grace_child = c
                /\ tick.final_warning_at >= 0
                /\ clock'.secs >= tick.final_warning_at + Profile(c).grace_period
                /\ tick'.lock_calls[c] = 1
                /\ Locked(tlState', c)
          /\ (tracker.pc = "grace" /\ tracker.grace_child = c /\ tracker'.pc # "grace") =>
                tick'.lock_calls[c] = 1
          /\ (Locked(tlState, c) /\ Locked(tlState', c)) =>
                tick'.lock_calls[c] = tick.lock_calls[c]]_vars

\* A call of grant_extension: an extension override is appended.
Granted ==
    /\ Len(tlState'.admin_overrides) = Len(tlState.admin_overrides) + 1
    /\ tlState'.admin_overrides[Len(tlState'.admin_overrides)].type = "extension"

LastOverride(state) == state.admin_overrides[Len(state.admin_overrides)]

\* Child c exhausted its time and was then granted an extension, which no
\* tick has taken into account yet.
ExtensionPending(c) ==
    /\ c \in DOMAIN tlState.children
    /\ tlState.children[c].locked_at = Nothing
    /\ tlState.children[c].remaining_seconds = 0
    /\ tlState.admin_overrides # <<>>
    /\ LastOverride(tlState).child_id = c
    /\ LastOverride(tlState).type = "extension"
    /\ LastOverride(tlState).granted_at = tlState.children[c].date
    /\ tlState.children[c].used_seconds
           = Budget(c, tlState.children[c].date)
             - LastOverride(tlState).additional_seconds[1]

\* C20: grant_extension(kid, 30, password) for a child locked after
\* exhausting its limit clears the lock and appends an override of 1800
\* seconds, and the next tick computes remaining_seconds = 1800.
C20_NextTickHasWholeExtension ==
    [][/\ Granted =>
            /\ LastOverride(tlState').additional_seconds = Some(30 * 60)
            /\ ~Locked(tlState', LastOverride(tlState').child_id)
       /\ \A c \in ChildIds :
            (ExtensionPending(c) /\ Counted(c)) =>
                tlState'.children[c].remaining_seconds = 1800]_vars

\* C20 (amended): grant_extension(kid, 30, password) for a child locked
\* after exhausting its limit clears the lock and appends an override of
\* 1800 seconds, and the next tick, which counts its own TICK_SECONDS,
\* computes remaining_seconds = 1800 - 10 = 1790.
C20_NextTickHasExtensionLessTick ==
    [][/\ Granted =>
            /\ LastOverride(tlState').additional_seconds = Some(30 * 60)
            /\ ~Locked(tlState', LastOverride(tlState').child_id)
       /\ \A c \in ChildIds :
            (ExtensionPending(c) /\ Counted(c)) =>
                tlState'.children[c].remaining_seconds = 1800 - TICK_SECONDS]_vars

\* The tick after an extension granted to a locked child has run.
C20_Witness ==
    \E c \in DOMAIN tlState.children :
        /\ tlState.admin_overrides # <<>>
        /\ LastOverride(tlState) =
               AdminOverride(c, "extension", Some(1800), tlState.children[c].date)
        /\ tick.lock_calls[c] = 0
        /\ tlState.children[c].locked_at = Nothing
        /\ tlState.children[c].used_seconds
               = Budget(c, tlState.children[c].date) - 1800 + TICK_SECONDS
        /\ tlState.children[c].remaining_seconds = 1790

\* C21: a grant_extension issued while a tick is in its grace-period sleep
\* cancels the pending lock: when the grace period ends the enforcer's lock
\* action is not invoked and the child is not marked locked.
C21_ExtensionCancelsPendingLock ==
    [][(/\ tracker.pc = "grace"
        /\ tracker.call # Nothing
        /\ tracker.call[1].child_id = tracker.grace_child
        /\ tracker'.pc # "grace") =>
           /\ tick'.lock_calls[tracker.grace_child]
                  = tick.lock_calls[tracker.grace_child]
           /\ ~Locked(tlState', tracker.grace_child)]_vars

\* C22: a notification that cannot be delivered (threshold warning or final
\* warning) does not abort the tick: whatever became of its notifications, a
\* tick that counted for a child goes on to the grace period when no time
\* remains, and to the save of the state otherwise; the grace period ends
\* with the child marked locked and the enforcer's lock action invoked.
C22_NotificationFailureSwallowed ==
    [][\A c \in ChildIds :
          /\ (Counted(c) /\ tlState'.children[c].remaining_seconds = 0) =>
                /\ tracker'.pc = "grace"
                /\ tracker'.grace_child = c
          /\ (Counted(c) /\ tlState'.children[c].remaining_seconds > 0) =>
                tlFile' = Some(tlState')
          /\ (tracker.pc = "grace" /\ tracker.grace_child = c /\ tracker'.pc # "grace") =>
                /\ Locked(tlState', c)
                /\ tick'.lock_calls[c] = tick.lock_calls[c] + 1]_vars

\* A successful select_child: a call that changed the state, pushed no
\* override and did not touch the state file.
Selected ==
    /\ tick'.calls = tick.calls + 1
    /\ tlState'.admin_overrides = tlState.admin_overrides
    /\ tlState' # tlState
    /\ tlFile' = tlFile

Used(state, c) == IF c \in DOMAIN state.children THEN state.children[c].used_seconds ELSE 0

\* C23: there is at most one active session; select_child closes the
\* session in progress, appending it with its elapsed seconds to the outgoing
\* child's usage, and opens the new one at the time of the call; and a
\* child's used_seconds only grows while the child is the active session.
C23_OneActiveSession ==
    [][/\ Len(tlState'.active_session) <= 1
       /\ (Selected /\ tlState.active_session # Nothing) =>
             LET closed == tlState.active_session[1]
                 out    == closed.child_id
                 elapsed == clock.secs - closed.session_start
             IN  /\ out \in DOMAIN tlState.children =>
                       /\ tlState'.children[out].sessions =
                              Append(tlState.children[out].sessions,
                                     [start |-> closed.session_start,
                                      end |-> clock.secs,
                                      duration_seconds |-> elapsed])
                       /\ tlState'.children[out].used_seconds =
                              tlState.children[out].used_seconds + elapsed
                 /\ tlState'.active_session # Nothing
                 /\ tlState'.active_session[1].session_start = clock.secs
                 /\ ~tlState'.active_session[1].paused
                 /\ \A c \in ChildIds \ {out} : Used(tlState', c) = Used(tlState, c)
       /\ \A c \in ChildIds :
             Used(tlState', c) > Used(tlState, c) =>
                 /\ tlState.active_session # Nothing
                 /\ tlState.active_session[1].child_id = c]_vars

\* Under shared login kid2 was selected while kid1's session was in
\* progress: the session is closed in kid1's usage with the seconds it
\* lasted, and kid2 is the active session.
C23_Witness ==
    /\ tlConfig.shared_login.enabled
    /\ tlState.active_session # Nothing
    /\ tlState.active_session[1].child_id = "kid2"
    /\ "kid1" \in DOMAIN tlState.children
    /\ Len(tlState.children["kid1"].sessions) = 1
    /\ tlState.children["kid1"].sessions[1].duration_seconds > 0
    /\ tlState.children["kid1"].sessions[1].end = tlState.active_session[1].session_start

SessionPaused(state) ==
    state.active_session # Nothing /\ state.active_session[1].paused

\* The child a tick counts for: the active session's, unless it is locked.
Tracked(c) ==
    /\ tlState.active_session # Nothing
    /\ tlState.active_session[1].child_id = c
    /\ ~Locked(tlState, c)

\* C24: a tick taken while tracking is paused increments no child's
\* used_seconds; pause() sets and resume() clears both the process-wide flag
\* and the active session's paused field; and once resumed, a tick of the
\* day counts TICK_SECONDS for the active child again (unless it is locked).
C24_PausedTicksDoNotCount ==
    [][/\ (TickStep /\ tracker.paused) =>
             \A c \in ChildIds : Used(tlState', c) = Used(tlState, c)
       /\ (~tracker.paused /\ tracker'.paused) =>
             (tlState.active_session # Nothing => SessionPaused(tlState'))
       /\ (tracker.paused /\ ~tracker'.paused) => ~SessionPaused(tlState')
       /\ ~tracker'.paused => ~SessionPaused(tlState')
       /\ \A c \in ChildIds :
             (TickStep /\ ~tracker.paused /\ tlState.state_date = clock'.date
              /\ Tracked(c)) =>
                 Used(tlState', c) = Used(tlState, c) + TICK_SECONDS]_vars

\* Tracking was paused for two ticks or more and resumed: the active child,
\* never locked, was counted fewer seconds than its session has lasted, and
\* is counted again.
C24_Witness ==
    /\ ~tracker.paused
    /\ tlState.active_session # Nothing
    /\ ~tlState.active_session[1].paused
    /\ LET c == tlState.active_session[1].child_id
       IN  /\ c \in DOMAIN tlState.children
           /\ tlState.children[c].locked_at = Nothing
           /\ tick.lock_calls[c] = 0
           /\ tick.invoked[c] = tick.delivered[c]
           /\ tlState.children[c].sessions = <<>>
           /\ tlState.children[c].remaining_seconds > 0
           /\ tlState.children[c].used_seconds >= 2 * TICK_SECONDS
           /\ tlFile = Some(tlState)
           /\ clock.secs - tlState.active_session[1].session_start
                  >= tlState.children[c].used_seconds + 2 * TICK_SECONDS

MidTick == tick.final_warning_at >= 0

\* C26: whenever get_state can return, the state it clones is the one a
\* whole tick or a whole call left: never the state of a tick in progress.
C26_SnapshotTickAligned == ENABLED GetState => ~MidTick

\* get_state returns the state a tick left after its grace period: the
\* child locked, the lock action invoked once, the state saved.
C26_Witness ==
    /\ ENABLED GetState
    /\ \E c \in DOMAIN tlState.children :
          /\ Locked(tlState, c)
          /\ tlState.children[c].remaining_seconds = 0
          /\ tick.lock_calls[c] = 1
          /\ Profile(c).grace_period > 0
    /\ tlFile = Some(tlState)

\* C27: the tracker's state file is touched only by the tracker task: every
\* change of the file is made by a tick of the tracker, at its wake or at the
\* end of its grace period.
C27_OnlyTrackerWritesItsState ==
    [][tlFile' # tlFile =>
          \/ TickStep
          \/ tracker.pc = "grace" /\ tracker'.pc = "waiting"]_vars

-----------------------------------------------------------------------------
(* The admin gate (time_limits/auth.rs)                                    *)

\* Bounds of the gate model: the limiter's max_attempts and window_seconds,
\* the instants its clock passes, the calls of reset().
MaxAttempts == 2

MaxWindow == 2

MaxInstant == 3

MaxResets == 1

RateLimiter_new(max_attempts, window_seconds) ==
    [attempts |-> <<>>, max_attempts |-> max_attempts,
     window_duration |-> window_seconds]

\* attempts.retain(|&attempt| now.duration_since(attempt) < window_duration),
\* `instant` being Instant::now().
Retain(attempts, instant, window_duration) ==
    SelectSeq(attempts, LAMBDA attempt : instant - attempt < window_duration)

is_allowed_OffByOne(limiter, instant) ==
    LET kept == Retain(limiter.attempts, instant, limiter.window_duration)
    IN  IF Len(kept) <= limiter.max_attempts
        THEN [allowed |-> TRUE,
              limiter |-> [limiter EXCEPT !.attempts = Append(kept, instant)]]
        ELSE [allowed |-> FALSE, limiter |-> [limiter EXCEPT !.attempts = kept]]

is_allowed(limiter, instant) ==
    LET kept == Retain(limiter.attempts, instant, limiter.window_duration)
    IN  IF Len(kept) < limiter.max_attempts
        THEN [allowed |-> TRUE,
              limiter |-> [limiter EXCEPT !.attempts = Append(kept, instant)]]
        ELSE [allowed |-> FALSE, limiter |-> [limiter EXCEPT !.attempts = kept]]

RateLimiter_reset(limiter) == [limiter EXCEPT !.attempts = <<>>]

\* `gate` holds a RateLimiter, the Instant it is at, and a record of its
\* use: the instants of the attempts is_allowed admitted, how many of them
\* preceded the last reset(), and the answer the last call got.
IsAllowed ==
    /\ LET r == is_allowed(gate.limiter, gate.now)
       IN  gate' = [gate EXCEPT
                      !.limiter = r.limiter,
                      !.admitted = IF r.allowed THEN Append(@, gate.now) ELSE @,
                      !.last = IF r.allowed THEN "allowed" ELSE "denied"]
    /\ UNCHANGED <<policyVars, tlConfig, tlState, tracker, clock, tick, tlFile>>

Elapse ==
    /\ gate.now < MaxInstant
    /\ gate' = [gate EXCEPT !.now = @ + 1]
    /\ UNCHANGED <<policyVars, tlConfig, tlState, tracker, clock, tick, tlFile>>

LimiterReset ==
    /\ gate.resets < MaxResets
    /\ gate' = [gate EXCEPT !.limiter = RateLimiter_reset(@),
                            !.resets = @ + 1,
                            !.before_reset = Len(gate.admitted)]
    /\ UNCHANGED <<policyVars, tlConfig, tlState, tracker, clock, tick, tlFile>>

\* TimeTracker::grant_extension and reset_time called with a wrong admin
\* password (SpecTracker has the calls with the right one): the call is
\* answered with the error of the failed verification.
AuthGrantExtension ==
    /\ \E child_id \in ChildIds, additional_minutes \in ExtensionMinutes :
         LET r == grant_extension(tlState, child_id, additional_minutes,
                                  FALSE, clock)
         IN  /\ tlState' = r.state
             /\ gate' = [gate EXCEPT !.last = IF r.ok THEN "granted"
                                              ELSE "auth_failed"]
    /\ UNCHANGED <<policyVars, tlConfig, tracker, clock, tick, tlFile>>

AuthResetTime ==
    /\ \E child_id \in ChildIds :
         LET r == reset_time(tlState, child_id, FALSE, clock)
         IN  /\ tlState' = r.state
             /\ gate' = [gate EXCEPT !.last = IF r.ok THEN "reset"
                                              ELSE "auth_failed"]
    /\ UNCHANGED <<policyVars, tlConfig, tracker, clock, tick, tlFile>>

\* A tracker under shared login, constructed and not started, and a limiter
\* just created.
InitGate ==
    /\ platform = "Linux"
    /\ surface = [b \in Browsers |-> AbsentSurface(b)]
    /\ stateFile = Nothing
    /\ lastOp = NoOp
    /\ DaemonIdle
    /\ tlConfig = TimeLimitsConfig(TRUE)
    /\ tracker = [running |-> FALSE, paused |-> FALSE, pc |-> "none",
                  grace_child |-> None, call |-> Nothing, os_user |-> "family"]
    /\ tlFile = Some(SavedSession(tlConfig))
    /\ tlState = SavedSession(tlConfig)
    /\ clock = [date |-> 0, secs |-> 0]
    /\ tick = NoTick
    /\ PureIdle
    /\ \E max_attempts \in 1..MaxAttempts, window_seconds \in 1..MaxWindow :
         gate = [limiter |-> RateLimiter_new(max_attempts, window_seconds),
                 now |-> 0, admitted |-> <<>>, before_reset |-> 0,
                 resets |-> 0, last |-> "none"]

NextGate ==
    \/ IsAllowed
    \/ Elapse
    \/ LimiterReset
    \/ AuthGrantExtension
    \/ AuthResetTime

SpecGate == InitGate /\ [][NextGate]_vars

-----------------------------------------------------------------------------
(* Properties of the admin gate                                            *)

\* C28: a grant_extension or reset_time call made with a wrong admin
\* password is reported to its caller as a failure and consumes one slot of
\* the rate limiter.
C28_WrongPasswordConsumesSlot ==
    [][(gate'.last = "auth_failed" /\ gate.last # "auth_failed") =>
          /\ tlState' = tlState
          /\ Len(gate'.limiter.attempts) = Len(gate.limiter.attempts) + 1]_vars

\* The attempts of `log` admitted during the window_duration seconds that
\* precede `instant`, those made at `instant` included.
AdmittedWithin(log, instant, window_duration) ==
    Cardinality({i \in 1..Len(log) :
                    log[i] <= instant /\ instant - log[i] < window_duration})

\* The attempts admitted since the limiter was created or last reset.
SinceReset(g) == SubSeq(g.admitted, g.before_reset + 1, Len(g.admitted))

\* A call of is_allowed that was answered.
Answered ==
    /\ gate' # gate
    /\ gate'.now = gate.now
    /\ gate'.resets = gate.resets
    /\ gate'.last \in {"allowed", "denied"}
    /\ gate'.limiter # gate.limiter \/ gate'.last # gate.last

\* C29: the limiter admits at most max_attempts attempts within any window
\* of window_seconds: is_allowed answers true only if fewer than
\* max_attempts attempts were admitted during the preceding window_seconds,
\* and it admits an attempt again once enough of the admitted ones are older
\* than that.
C29_SlidingWindow ==
    [][/\ \A i \in 1..Len(gate'.admitted) :
             AdmittedWithin(gate'.admitted, gate'.admitted[i],
                            gate'.limiter.window_duration)
                 <= gate'.limiter.max_attempts
       /\ Answered =>
             (gate'.last = "allowed" <=>
                 AdmittedWithin(gate.admitted, gate.now, gate.limiter.window_duration)
                     < gate.limiter.max_attempts)]_vars

\* C29 (amended): between two calls of reset(), the limiter admits at most
\* max_attempts attempts within any window of window_seconds: is_allowed
\* answers true if and only if fewer than max_attempts attempts were
\* admitted, since the limiter was created or last reset, during the
\* preceding window_seconds; the attempts it holds are those.
C29_SlidingWindowSinceReset ==
    [][/\ \A i \in 1..Len(SinceReset(gate')) :
             AdmittedWithin(SinceReset(gate'), SinceReset(gate')[i],
                            gate'.limiter.window_duration)
                 <= gate'.limiter.max_attempts
       /\ Answered =>
             /\ gate'.last = "allowed" <=>
                    AdmittedWithin(SinceReset(gate), gate.now,
                                   gate.limiter.window_duration)
                        < gate.limiter.max_attempts
             /\ gate'.limiter.attempts =
                    Retain(SinceReset(gate'), gate.now, gate.limiter.window_duration)]_vars

\* With no reset, the limiter has admitted more than max_attempts attempts:
\* the last one once the earlier ones had aged out of the window, which it
\* fills again.
C29_Witness ==
    /\ gate # Nothing
    /\ gate.resets = 0
    /\ gate.last = "allowed"
    /\ Len(gate.admitted) > gate.limiter.max_attempts
    /\ Len(gate.limiter.attempts) = gate.limiter.max_attempts
    /\ gate.limiter.max_attempts > 1

-----------------------------------------------------------------------------
(* Translation of policy documents with privacy flags (config.rs)          *)

\* The policy entries of the translated documents: each targets one of
\* BrowserSets, sets or leaves unset each privacy flag, and has no
\* extension or one.
FlaggedEntries ==
    {[browsers |-> bs, disable_private_mode |-> private,
      disable_guest_mode |-> guest, extensions |-> ex] :
        bs \in BrowserSets, private \in {None, Yes, No}, guest \in {None, Yes},
        ex \in ExtensionLists}

\* The documents load_config accepts: one policy entry or two, validated.
FlaggedDocs ==
    {d \in {[policies |-> <<p>>] : p \in FlaggedEntries}
            \cup {[policies |-> <<p, q>>] : p, q \in FlaggedEntries} :
        validate_config(d)}

NoConfigs == [b \in Browsers |-> Nothing]

Translate ==
    /\ ~translated.done
    /\ translated' = [translated EXCEPT !.done = TRUE,
                                        !.configs = to_browser_configs(translated.config)]
    /\ UNCHANGED <<trackerVars, preview, scheduler, loops, mutex, platform, surface, stateFile,
                   tmpFile, lastOp, agentConfig, server, pc, mem, retries,
                   backoff, iter, now>>

InitTranslate ==
    /\ platform = "Linux"
    /\ surface = [b \in Browsers |-> AbsentSurface(b)]
    /\ stateFile = Nothing
    /\ lastOp = NoOp
    /\ DaemonIdle
    /\ tlConfig = Nothing
    /\ tlState = Nothing
    /\ tracker = Nothing
    /\ clock = Nothing
    /\ tick = Nothing
    /\ tlFile = Nothing
    /\ gate = Nothing
    /\ preview = Nothing
    /\ scheduler = Nothing
    /\ loops = Nothing
    /\ mutex = Nothing
    /\ \E d \in FlaggedDocs :
         translated = [config |-> d, done |-> FALSE, configs |-> NoConfigs]

NextTranslate == Translate

SpecTranslate == InitTranslate /\ [][NextTranslate]_vars

\* Some policy entry of the document lists the browser.
Mentioned(config, b) ==
    \E i \in 1..Len(config.policies) : b \in config.policies[i].browsers

\* Some policy entry that lists the browser sets a privacy flag.
FlagSet(config, b) ==
    \E i \in 1..Len(config.policies) :
        /\ b \in config.policies[i].browsers
        /\ \/ config.policies[i].disable_private_mode # None
           \/ config.policies[i].disable_guest_mode # None

\* Some policy entry that lists the browser has an extension with an id for
\* it.
HasExtension(config, b) ==
    \E i \in 1..Len(config.policies) :
        /\ b \in config.policies[i].browsers
        /\ \E j \in 1..Len(config.policies[i].extensions) :
              get_id(config.policies[i].extensions[j].id, b) # None

\* Some policy entry that lists the browser sets a privacy flag the browser
\* has: disable_private_mode, or disable_guest_mode for Chrome and Edge.
FlagFor(config, b) ==
    \E i \in 1..Len(config.policies) :
        /\ b \in config.policies[i].browsers
        /\ \/ config.policies[i].disable_private_mode # None
           \/ b # "firefox" /\ config.policies[i].disable_guest_mode # None

\* C30: the sub-configuration to_browser_configs makes for a browser from a
\* validated document is absent if and only if no policy entry mentions the
\* browser and no privacy flag is set for it.
C30_AbsentIffNotMentioned ==
    translated.done =>
        \A b \in Browsers :
            translated.configs[b] = Nothing <=>
                (~Mentioned(translated.config, b) /\ ~FlagSet(translated.config, b))

\* C30 (amended): the sub-configuration of a browser is absent if and only
\* if no policy entry that lists the browser has an extension for it or sets
\* a privacy flag the browser has (disable_guest_mode is none of Firefox's).
C30_AbsentIffNothingConfigured ==
    translated.done =>
        \A b \in Browsers :
            translated.configs[b] = Nothing <=>
                (~HasExtension(translated.config, b) /\ ~FlagFor(translated.config, b))

\* A translated document whose entries list a browser for which they
\* configure nothing, beside one they configure: the first has no
\* sub-configuration, the second has one.
C30_Witness ==
    /\ translated # Nothing
    /\ translated.done
    /\ \E b, c \in Browsers :
          /\ Mentioned(translated.config, b)
          /\ translated.configs[b] = Nothing
          /\ translated.configs[c] # Nothing
          /\ translated.configs[c][1].extensions = <<>>

-----------------------------------------------------------------------------
(* The diff of a document against the applied-state (core/diff.rs)         *)

Range(seq) == {seq[i] : i \in 1..Len(seq)}

\* The elements of a HashSet, or the keys of a HashMap, as a `for` loop
\* visits them: each once, in an order of the table's choosing.
RECURSIVE Iterate(_)
Iterate(set) ==
    IF set = {} THEN <<>>
    ELSE LET x == CHOOSE x \in set : TRUE
         IN  <<x>> \o Iterate(set \ {x})

generate_extension_diffs(new_extensions, current_state) ==
    LET current_ids == IF current_state = Nothing THEN {}
                       ELSE Range(current_state[1].extensions)
        new_ids == {new_extensions[i].id : i \in 1..Len(new_extensions)}
        found == Iterate(new_ids)
        held  == Iterate(current_ids)
        gone  == SelectSeq(held, LAMBDA id : id \notin new_ids)
    IN  [i \in 1..Len(found) |->
            [type |-> IF found[i] \in current_ids THEN "Unchanged" ELSE "Added",
             id |-> found[i]]]
          \o [i \in 1..Len(gone) |-> [type |-> "Removed", id |-> gone[i]]]

\* the BrowserState field and the setting name of a browser's private mode
PrivateField(browser) ==
    CASE browser = "chrome"  -> "disable_incognito"
      [] browser = "firefox" -> "disable_private_browsing"
      [] browser = "edge"    -> "disable_inprivate"

PrivateName(browser) ==
    CASE browser = "chrome"  -> "Disable Incognito Mode"
      [] browser = "firefox" -> "Disable Private Browsing"
      [] browser = "edge"    -> "Disable InPrivate Mode"

\* Option<bool>::map(|v| v.to_string()): "true", "false" or none
OptionToString(flag) == flag

PrivacySettingDiff(name, old, new) ==
    IF old # new
    THEN <<[setting_name |-> name, old_value |-> OptionToString(old),
            new_value |-> OptionToString(new)]>>
    ELSE <<>>

\* generate_chrome_privacy_diff / generate_firefox_privacy_diff /
\* generate_edge_privacy_diff
generate_privacy_diff(browser, new_config, current_state) ==
    LET old(field) == IF current_state = Nothing THEN None
                      ELSE current_state[1][field]
    IN  PrivacySettingDiff(PrivateName(browser), old(PrivateField(browser)),
                           new_config.disable_private_mode)
          \o (IF browser = "firefox" THEN <<>>
              ELSE PrivacySettingDiff("Disable Guest Mode",
                                      old("disable_guest_mode"),
                                      new_config.disable_guest_mode))

\* generate_chrome_diff / generate_firefox_diff / generate_edge_diff
generate_browser_diff(browser, new_config, current_state) ==
    [browser |-> browser,
     extensions |-> generate_extension_diffs(new_config.extensions, current_state),
     privacy_settings |-> generate_privacy_diff(browser, new_config, current_state)]

CountType(diffs, type) == Len(SelectSeq(diffs, LAMBDA d : d.type = type))

RECURSIVE SumOver(_, _)
SumOver(f, set) ==
    IF set = {} THEN 0
    ELSE LET x == CHOOSE x \in set : TRUE
         IN  f[x] + SumOver(f, set \ {x})

create_summary(diffs) ==
    LET shown == {b \in Browsers : diffs[b] # Nothing}
    IN  [total_additions |->
            SumOver([b \in shown |-> CountType(diffs[b][1].extensions, "Added")], shown),
         total_removals |->
            SumOver([b \in shown |-> CountType(diffs[b][1].extensions, "Removed")], shown),
         total_changes |->
            SumOver([b \in shown |-> Len(diffs[b][1].privacy_settings)], shown)]

\* current_state: Nothing, or Some(State)
generate_diff(new_config, current_state) ==
    LET configs == to_browser_configs(new_config)
        current(b) == IF current_state = Nothing THEN Nothing
                      ELSE current_state[1].applied_policies[b]
        diffs == [b \in Browsers |->
                    IF configs[b] = Nothing THEN Nothing
                    ELSE Some(generate_browser_diff(b, configs[b][1], current(b)))]
    IN  [browsers |-> diffs, summary |-> create_summary(diffs)]

\* The applied-states a diff is taken against: none, or the one a
\* successful apply of a one-entry document has saved.
PriorStates ==
    {Nothing}
      \cup {Some(create_state(d, apply_policies("Linux",
                                   [b \in Browsers |-> AbsentSurface(b)],
                                   d, NoFail).applied, 1)) :
              d \in {[policies |-> <<p>>] : p \in FlaggedEntries}}

GenerateDiff ==
    /\ ~preview.done
    /\ preview' = [preview EXCEPT !.done = TRUE,
                                  !.diff = generate_diff(preview.config, preview.state)]
    /\ UNCHANGED <<trackerVars, translated, scheduler, loops, mutex, platform, surface, stateFile,
                   tmpFile, lastOp, agentConfig, server, pc, mem, retries,
                   backoff, iter, now>>

NoDiff == [browsers |-> [b \in Browsers |-> Nothing],
           summary |-> [total_additions |-> 0, total_removals |-> 0,
                        total_changes |-> 0]]

InitDiff ==
    /\ platform = "Linux"
    /\ surface = [b \in Browsers |-> AbsentSurface(b)]
    /\ stateFile = Nothing
    /\ lastOp = NoOp
    /\ DaemonIdle
    /\ tlConfig = Nothing
    /\ tlState = Nothing
    /\ tracker = Nothing
    /\ clock = Nothing
    /\ tick = Nothing
    /\ tlFile = Nothing
    /\ gate = Nothing
    /\ translated = Nothing
    /\ scheduler = Nothing
    /\ loops = Nothing
    /\ mutex = Nothing
    /\ \E d \in FlaggedDocs, s \in PriorStates :
         preview = [config |-> d, state |-> s, done |-> FALSE, diff |-> NoDiff]

NextDiff == GenerateDiff

SpecDiff == InitDiff /\ [][NextDiff]_vars

\* the ids the new document configures for a browser, and the ids the
\* applied-state records for it
NewIds(config, b) ==
    LET exts == BrowserExtensions(config.policies, Len(config.policies), b)
    IN  {exts[i].id : i \in 1..Len(exts)}

PriorIds(state, b) ==
    IF state = Nothing THEN {}
    ELSE IF state[1].applied_policies[b] = Nothing THEN {}
    ELSE Range(state[1].applied_policies[b][1].extensions)

\* the classifications the diff reports for a browser
Classified(diff, b) ==
    IF diff.browsers[b] = Nothing THEN <<>> ELSE diff.browsers[b][1].extensions

Times(diffs, type, id) ==
    Len(SelectSeq(diffs, LAMBDA d : d.type = type /\ d.id = id))

\* the value of a privacy flag in the new document and in the applied-state
NewFlag(config, b, field) ==
    IF b = "firefox" /\ field = "disable_guest_mode" THEN None
    ELSE BrowserFlag(config.policies, Len(config.policies), b, field)

PriorFlag(state, b, field) ==
    IF state = Nothing THEN None
    ELSE IF state[1].applied_policies[b] = Nothing THEN None
    ELSE state[1].applied_policies[b][1][
            IF field = "disable_guest_mode" THEN field ELSE PrivateField(b)]

SettingName(b, field) ==
    IF field = "disable_guest_mode" THEN "Disable Guest Mode" ELSE PrivateName(b)

Settings(diff, b) ==
    IF diff.browsers[b] = Nothing THEN {} ELSE Range(diff.browsers[b][1].privacy_settings)

\* C31: the diff classifies every extension id of every browser exactly
\* once, Added iff only in the new document, Removed iff only in the prior
\* state (also when the new document no longer configures the browser),
\* Unchanged iff in both, and reports (setting_name, old, new) exactly for
\* the privacy flags whose value changed.
C31_DiffClassifiesEveryId ==
    (preview # Nothing /\ preview.done) =>
        \A b \in Browsers :
            LET new == NewIds(preview.config, b)
                old == PriorIds(preview.state, b)
                out == Classified(preview.diff, b)
            IN  /\ \A id \in ExtIds :
                     /\ Times(out, "Added", id) = (IF id \in new \ old THEN 1 ELSE 0)
                     /\ Times(out, "Removed", id) = (IF id \in old \ new THEN 1 ELSE 0)
                     /\ Times(out, "Unchanged", id) = (IF id \in new \cap old THEN 1 ELSE 0)
                /\ \A field \in {"disable_private_mode", "disable_guest_mode"} :
                     LET was == PriorFlag(preview.state, b, field)
                         is  == NewFlag(preview.config, b, field)
                     IN  (was # is) <=>
                           [setting_name |-> SettingName(b, field),
                            old_value |-> was, new_value |-> is]
                              \in Settings(preview.diff, b)

-----------------------------------------------------------------------------
(* The command core: apply, removal and preview (core/apply.rs)            *)

with_preview_Writes(dry_run, current, written) == written

\* apply_registry_policy_with_preview / apply_registry_value_with_preview
\* and their file and plist counterparts: in dry-run mode the surface is
\* read and the change printed, otherwise the surface is written
with_preview(dry_run, current, written) ==
    IF dry_run THEN current ELSE written

\* policy::apply_policies(config, current_state, dry_run)
apply_policies_with_preview(plat, surf, config, fail, dry_run) ==
    LET r == apply_policies(plat, surf, config, fail)
    IN  [r EXCEPT !.surface = with_preview(dry_run, surf, r.surface)]

CoreOutcome(op, result, planned, attempted, failed, fail) ==
    [op |-> op, result |-> result, planned |-> planned,
     attempted |-> attempted, failed |-> failed, repeat |-> FALSE,
     clean |-> (lastOp.clean /\ fail = NoFail)]

apply_policies_from_config(config, dry_run, order, fail) ==
    LET config_hash   == compute_config_hash(config, order)
        current_state == load_state(stateFile)
        changed       == IF current_state # Nothing
                         THEN current_state[1].config_hash # config_hash
                         ELSE TRUE
        op            == "apply_policies_from_config"
        planned       == PlannedBrowsers(config)
    IN  IF ~changed /\ ~dry_run
        THEN /\ lastOp' = CoreOutcome(op, "unchanged", <<>>, <<>>, {}, fail)
             /\ UNCHANGED <<surface, stateFile>>
        ELSE LET r == apply_policies_with_preview(platform, surface, config,
                                                  fail, dry_run)
             IN  /\ surface' = r.surface
                 /\ IF ~r.ok
                    THEN /\ stateFile' = stateFile
                         /\ lastOp' = CoreOutcome(op, "error", planned, r.attempted, {}, fail)
                    ELSE IF dry_run
                    THEN /\ stateFile' = stateFile
                         /\ lastOp' = CoreOutcome(op, "dry_run", planned, r.attempted, {}, fail)
                    ELSE IF fail["state"] # 0
                    THEN /\ stateFile' = stateFile
                         /\ lastOp' = CoreOutcome(op, "error", planned, r.attempted, {}, fail)
                    ELSE /\ stateFile' = Some(create_state(config, r.applied, order))
                         /\ lastOp' = CoreOutcome(op, "applied", planned, r.attempted, {}, fail)

remove_all_policies(dry_run, fail) ==
    LET current_state == load_state(stateFile)
        op            == "remove_all_policies"
    IN  IF current_state = Nothing
        THEN /\ lastOp' = CoreOutcome(op, "error", <<>>, <<>>, {}, fail)
             /\ UNCHANGED <<surface, stateFile>>
        ELSE IF dry_run
        THEN /\ lastOp' = CoreOutcome(op, "dry_run", RecordedBrowsers(stateFile),
                                      <<>>, {}, fail)
             /\ UNCHANGED <<surface, stateFile>>
        ELSE LET r == remove_policies(platform, surface, current_state[1], fail)
                 errors == (IF r.ok THEN {} ELSE {"policies"})
                             \cup (IF fail["state"] # 0 THEN {"state"} ELSE {})
             IN  /\ surface' = r.surface
                 /\ stateFile' = IF fail["state"] # 0 THEN stateFile ELSE Nothing
                 /\ lastOp' = CoreOutcome(op, IF errors = {} THEN "removed" ELSE "error",
                                          <<>>, r.attempted, errors, fail)

\* commands::local install_policies with --dry-run: the diff is printed
DiffShown(diff) ==
    LET at(b) == IF diff.browsers[b] # Nothing THEN <<b>> ELSE <<>>
    IN  at("chrome") \o at("firefox") \o at("edge")

show_diff(config) ==
    LET current_state == load_state(stateFile)
        diff          == generate_diff(config, current_state)
    IN  /\ lastOp' = CoreOutcome("generate_diff", "dry_run", DiffShown(diff),
                                 <<>>, {}, NoFail)
        /\ UNCHANGED <<surface, stateFile>>

\* The preview of a document: generate_diff against the saved state.
CoreDiff ==
    /\ \E config \in Docs : show_diff(config)
    /\ UNCHANGED <<trackerVars, pureVars, platform, daemonVars>>

\* `apply --config <config> [--dry-run]` of the command core
CoreInstall ==
    /\ \E config \in Docs, dry_run \in BOOLEAN :
         \E order \in MapOrders(config),
            fail \in IF dry_run THEN {NoFail} ELSE ApplyFaults(platform, config) :
           apply_policies_from_config(config, dry_run, order, fail)
    /\ UNCHANGED <<trackerVars, pureVars, platform, daemonVars>>

\* `apply --uninstall [--dry-run]` of the command core
CoreUninstall ==
    /\ \E dry_run \in BOOLEAN :
         \E fail \in IF dry_run THEN {NoFail} ELSE RemoveFaults(platform, stateFile) :
           remove_all_policies(dry_run, fail)
    /\ UNCHANGED <<trackerVars, pureVars, platform, daemonVars>>

NextCore == CoreDiff \/ CoreInstall \/ CoreUninstall

\* The platforms the command core is run on here: one with a surface per
\* browser file, one with the registry and its preview functions.
InitCore == Init /\ platform \in {"Linux", "Windows"}

SpecCore == InitCore /\ [][NextCore]_vars

-----------------------------------------------------------------------------
(* The polling scheduler (agent/scheduler.rs)                              *)

\* Duration::from_secs takes a u64: the largest number of seconds here
MaxSecs == 5

\* the polls of one daemon run that are followed
MaxPolls == 2

PollingScheduler_new(interval_secs, jitter_secs) ==
    [base_interval |-> interval_secs, jitter_range |-> jitter_secs]

random_jitter_Symmetric(s) ==
    {j \in -s.jitter_range..s.jitter_range : s.base_interval + j >= 0}

\* rand::thread_rng().gen_range(0..=jitter_range): any of these
random_jitter(s) == 0..s.jitter_range

\* base_interval + jitter: Duration's `+` panics when the sum of the
\* seconds does not fit (Nothing: no interval is returned)
calculate_next_interval(s, jitter) ==
    IF s.base_interval + jitter > MaxSecs THEN Nothing
    ELSE Some(s.base_interval + jitter)

Drawn(kind) ==
    \E jitter \in random_jitter(scheduler.timer) :
        LET interval == calculate_next_interval(scheduler.timer, jitter)
        IN  scheduler' =
              IF interval = Nothing
              THEN [scheduler EXCEPT !.panicked = TRUE]
              ELSE [scheduler EXCEPT !.last = interval, !.by = kind,
                                     !.polls = IF kind = "sleep_until_next_poll"
                                               THEN @ + 1 ELSE @]

\* run_agent_daemon: `let next_check = scheduler.next_poll_time();`
NextPollTime ==
    /\ ~scheduler.panicked
    /\ scheduler.by # "next_poll_time"
    /\ scheduler.polls < MaxPolls
    /\ Drawn("next_poll_time")
    /\ UNCHANGED <<trackerVars, translated, preview, loops, mutex, platform, surface, stateFile,
                   tmpFile, lastOp, agentConfig, server, pc, mem, retries,
                   backoff, iter, now>>

\* run_agent_daemon: `scheduler.sleep_until_next_poll().await;`
SleepUntilNextPoll ==
    /\ ~scheduler.panicked
    /\ scheduler.by = "next_poll_time"
    /\ Drawn("sleep_until_next_poll")
    /\ UNCHANGED <<trackerVars, translated, preview, loops, mutex, platform, surface, stateFile,
                   tmpFile, lastOp, agentConfig, server, pc, mem, retries,
                   backoff, iter, now>>

InitScheduler ==
    /\ platform = "Linux"
    /\ surface = [b \in Browsers |-> AbsentSurface(b)]
    /\ stateFile = Nothing
    /\ lastOp = NoOp
    /\ DaemonIdle
    /\ tlConfig = Nothing
    /\ tlState = Nothing
    /\ tracker = Nothing
    /\ clock = Nothing
    /\ tick = Nothing
    /\ tlFile = Nothing
    /\ gate = Nothing
    /\ translated = Nothing
    /\ preview = Nothing
    /\ loops = Nothing
    /\ mutex = Nothing
    /\ \E interval_secs \in 0..MaxSecs, jitter_secs \in 0..MaxSecs :
         scheduler = [timer |-> PollingScheduler_new(interval_secs, jitter_secs),
                      last |-> Nothing, by |-> "none", polls |-> 0,
                      panicked |-> FALSE]

NextScheduler == NextPollTime \/ SleepUntilNextPoll

SpecScheduler == InitScheduler /\ [][NextScheduler]_vars

-----------------------------------------------------------------------------
(* The stored ETag and the stored hash (agent/daemon.rs, agent/state.rs)   *)

\* the body the server served under an ETag
ServedWith(etag) == etag[1][1]

\* C34: in every persisted agent state the stored ETag is absent or was
\* returned by the server with content whose hash is the stored
\* config_hash, so a 304 never hides a document that was fetched and not
\* applied.
C34_EtagMatchesHash ==
    (stateFile # Nothing /\ IsComplete(stateFile)
       /\ stateFile[1].github_etag # Nothing) =>
        stateFile[1].config_hash
          = Some(compute_yaml_hash(ServedWith(stateFile[1].github_etag)))

\* An attempt has fetched another document than the one applied and has
\* failed to parse or to apply it: the state file still holds the ETag
\* and the hash of the document applied before.
C34_Witness ==
    /\ pc = "returned"
    /\ iter.path \in {"parse_error", "apply_error"}
    /\ stateFile # Nothing
    /\ IsComplete(stateFile)
    /\ stateFile[1].github_etag # Nothing
    /\ ServedWith(stateFile[1].github_etag) # server.text

-----------------------------------------------------------------------------
(* The applied state and the surfaces (agent/daemon.rs, policy/*.rs)       *)

\* what the persisted agent state records for a browser
Recorded(b) ==
    IF stateFile = Nothing THEN Nothing
    ELSE IF ~IsComplete(stateFile) THEN Nothing
    ELSE stateFile[1].applied_policies[b]

RecordedIds(b) ==
    IF Recorded(b) = Nothing THEN {} ELSE Range(Recorded(b)[1].extensions)

\* the private-mode switch and the guest-mode value a surface holds when it
\* holds what the state records
RecordedPrivate(b) ==
    Recorded(b) # Nothing /\ Recorded(b)[1][PrivateField(b)] = Yes

RecordedGuest(b) ==
    IF Recorded(b) = Nothing THEN None
    ELSE IF Recorded(b)[1].disable_guest_mode = None THEN None
    ELSE Not(Recorded(b)[1].disable_guest_mode)

\* C35: whenever no apply is in progress, the persisted applied_policies
\* describes exactly what the browser surfaces contain: for each browser
\* the recorded extension ids and privacy flags are those of its surface,
\* also after an apply that failed part-way and after an apply whose
\* document dropped a browser.
C35_StateDescribesSurfaces ==
    pc \in {"check", "returned", "backoff", "sleep"} =>
        \A b \in Browsers :
            /\ SurfaceIds(b, surface[b]) = RecordedIds(b)
            /\ surface[b].private = RecordedPrivate(b)
            /\ surface[b].guest = RecordedGuest(b)

-----------------------------------------------------------------------------
(* Overrides granted from the command line (commands/time_limits.rs)       *)

\* a step in which the tracker saves its state: the tick loop's clock moves
\* and the file changes
TrackerSaves == clock' # clock /\ tlFile' # tlFile

\* C36: an extension or reset granted through the time-limits command
\* entry points while the tracker runs is not lost: the tracker's later
\* ticks count with it and the tracker's next save of the same day keeps
\* it in the state file.
C36_CommandOverrideKept ==
    [][(/\ tracker.running
        /\ tlFile # Nothing
        /\ TrackerSaves
        /\ tlFile'[1].state_date = tlFile[1].state_date)
       => \A i \in 1..Len(tlFile[1].admin_overrides) :
            /\ InSeq(tlFile[1].admin_overrides[i], tlFile'[1].admin_overrides)
            /\ InSeq(tlFile[1].admin_overrides[i], tlState'.admin_overrides)]_vars

-----------------------------------------------------------------------------
(* start() and stop() of the tracker (time_limits/tracker.rs)              *)

\* the start() calls of one tracker that are followed
MaxStarts == 3

\* a spawned tick loop: awaiting interval.tick(), or broken out of the loop;
\* ticked: it has run an iteration since the last start() that succeeded
NewLoop == [pc |-> "interval", ticked |-> FALSE]

Live(tasks) == {i \in 1..Len(tasks) : tasks[i].pc # "exited"}

\* TimeTracker::start: refuses when the running flag is set, else sets it
\* and spawns a tick loop
start(t) ==
    IF t.running
    THEN [t EXCEPT !.last = "already_running"]
    ELSE [t EXCEPT !.running = TRUE, !.last = "started",
                   !.tasks = [i \in 1..Len(@) + 1 |->
                                IF i <= Len(@) THEN [@[i] EXCEPT !.ticked = FALSE]
                                ELSE NewLoop]]

\* TimeTracker::stop: clears the running flag
stop(t) == [t EXCEPT !.running = FALSE, !.last = "stopped"]

\* a loop's interval.tick() completes: it breaks when the running flag is
\* clear, else it runs its iteration (or skips it when paused) and waits
\* for the next tick
wake(t, i) ==
    IF ~t.running
    THEN [t EXCEPT !.tasks[i].pc = "exited", !.last = "loop_exited"]
    ELSE [t EXCEPT !.tasks[i].ticked = TRUE, !.last = "ticked"]

StartCall ==
    /\ Len(loops.tasks) < MaxStarts
    /\ loops' = start(loops)
    /\ UNCHANGED <<trackerVars, translated, preview, scheduler, mutex, platform, surface,
                   stateFile, tmpFile, lastOp, agentConfig, server, pc, mem,
                   retries, backoff, iter, now>>

StopCall ==
    /\ loops' = stop(loops)
    /\ UNCHANGED <<trackerVars, translated, preview, scheduler, mutex, platform, surface,
                   stateFile, tmpFile, lastOp, agentConfig, server, pc, mem,
                   retries, backoff, iter, now>>

LoopWake ==
    /\ \E i \in Live(loops.tasks) : loops' = wake(loops, i)
    /\ UNCHANGED <<trackerVars, translated, preview, scheduler, mutex, platform, surface,
                   stateFile, tmpFile, lastOp, agentConfig, server, pc, mem,
                   retries, backoff, iter, now>>

\* TimeTracker::new
InitLoops ==
    /\ platform = "Linux"
    /\ surface = [b \in Browsers |-> AbsentSurface(b)]
    /\ stateFile = Nothing
    /\ lastOp = NoOp
    /\ DaemonIdle
    /\ tlConfig = Nothing
    /\ tlState = Nothing
    /\ tracker = Nothing
    /\ clock = Nothing
    /\ tick = Nothing
    /\ tlFile = Nothing
    /\ gate = Nothing
    /\ translated = Nothing
    /\ preview = Nothing
    /\ scheduler = Nothing
    /\ loops = [running |-> FALSE, tasks |-> <<>>, last |-> "none"]
    /\ mutex = Nothing

NextLoops == StartCall \/ StopCall \/ LoopWake

SpecLoops == InitLoops /\ [][NextLoops]_vars

\* C37: for any sequence of start() and stop() calls on one tracker at most
\* one tick loop is active at a time: start() fails while a loop runs, and
\* a stop() followed by a start() never leaves two loops ticking.
C37_OneLoopTicks ==
    loops # Nothing =>
        Cardinality({i \in Live(loops.tasks) : loops.tasks[i].ticked}) <= 1


-----------------------------------------------------------------------------
(* Tracked time is counted once (tracker.rs, state.rs)                     *)

\* A step of the tick loop that ran track_iteration for the session of
\* child c: the loop was at interval.tick(), the tracker not paused, the
\* child's session open and not paused.
AccountedTick(c) ==
    /\ LoopAtInterval
    /\ clock'.secs = clock.secs + TICK_SECONDS
    /\ ~tracker.paused
    /\ tlState.active_session # Nothing
    /\ tlState.active_session[1].child_id = c
    /\ ~tlState.active_session[1].paused

\* The seconds a step adds to the used_seconds of child c; a child's record
\* that the step creates starts from zero.
AddedSeconds(c) ==
    IF c \notin DOMAIN tlState'.children THEN 0
    ELSE tlState'.children[c].used_seconds
           - (IF c \in DOMAIN tlState.children
              THEN tlState.children[c].used_seconds ELSE 0)

\* C38: each interval of tracked time is counted at most once: a step adds to
\* a child's used_seconds only when it is an accounted tick for that child,
\* and then 10 seconds, so that used_seconds never exceeds 10 seconds times
\* the number of accounted ticks since the last rollover or reset; a
\* select_child that closes a session adds nothing.
C38_CountedOnce ==
    [][\A c \in ChildIds :
          AddedSeconds(c) <= (IF AccountedTick(c) THEN TICK_SECONDS ELSE 0)]_vars


-----------------------------------------------------------------------------
(* A failed lock at the end of the grace period (tracker.rs, enforcement.rs) *)

\* C39: if enforce_lock fails at the end of the grace period, the child is
\* not left recorded as locked without a successful lock invocation: a tick
\* that runs for the child's session while its last lock invocation has
\* failed, and leaves the child recorded as locked, has invoked the lock
\* action again.
C39_FailedLockRetried ==
    [][\A c \in ChildIds :
          (/\ tick.lock_failed[c]
           /\ AccountedTick(c)
           /\ c \in DOMAIN tlState'.children
           /\ is_locked(tlState'.children[c]))
          => tick'.lock_calls[c] > tick.lock_calls[c]]_vars


-----------------------------------------------------------------------------
(* The locks of the tracker (tracker.rs)                                   *)

\* The tick loop and two callers of the tracker's methods.
Tasks == {"loop", "ui1", "ui2"}

\* running, paused and state are tokio Mutexes, which serve their waiters in
\* the order they arrived; config is an RwLock that is only ever read.
Mutexes == {"running", "paused", "state"}

CallOps == {"pause", "resume", "select_child", "grant_extension", "reset_time",
            "get_state"}

\* How an operation goes: "denied" is grant_extension or reset_time with a
\* wrong password, "grace" a tick that sleeps through a grace period.
Variants(op) ==
    CASE op = "tick" -> {"plain", "grace"}
      [] op \in {"grant_extension", "reset_time"} -> {"plain", "denied"}
      [] OTHER -> {"plain"}

Acquires_StateFirst(op) ==
    CASE op = "pause" -> <<"state", "paused">>
      [] op = "resume" -> <<"paused", "state">>
      [] op \in {"tick", "select_child", "grant_extension", "reset_time"} ->
             <<"config", "state">>
      [] op = "get_state" -> <<"state">>

\* The guards an operation takes and holds to its return, in the order it
\* takes them (for a tick: those of track_iteration).
Acquires(op) ==
    CASE op \in {"pause", "resume"} -> <<"paused", "state">>
      [] op \in {"tick", "select_child", "grant_extension", "reset_time"} ->
             <<"config", "state">>
      [] op = "get_state" -> <<"state">>

\* The lock steps of an operation.  The loop first reads the running and
\* the paused flag, each under a guard dropped at the end of the condition;
\* a wrong password returns before the state is locked; guards are dropped
\* in the reverse of the order they were taken.
Program(op, variant) ==
    LET all    == Acquires(op)
        held   == IF variant = "denied" THEN SubSeq(all, 1, 1) ELSE all
        checks == IF op = "tick"
                  THEN << <<"lock", "running">>, <<"unlock", "running">>,
                          <<"lock", "paused">>, <<"unlock", "paused">> >>
                  ELSE <<>>
        locks   == [i \in 1..Len(held) |-> <<"lock", held[i]>>]
        sleep   == IF variant = "grace" THEN << <<"sleep", "state">> >> ELSE <<>>
        unlocks == [i \in 1..Len(held) |-> <<"unlock", held[Len(held) + 1 - i]>>]
    IN  checks \o locks \o sleep \o unlocks

IdleTask == [op |-> "none", variant |-> "plain", at |-> 0]

Instr(t) ==
    IF mutex.task[t].op = "none" THEN <<"none", "none">>
    ELSE Program(mutex.task[t].op, mutex.task[t].variant)[mutex.task[t].at]

\* The task after its current step: at the next one, or returned.
Advanced(task) ==
    IF task.at + 1 > Len(Program(task.op, task.variant)) THEN IdleTask
    ELSE [task EXCEPT !.at = @ + 1]

\* Task t has got lock m: pause and resume write the paused flag under it.
Got(m, t) ==
    LET op == mutex.task[t].op
    IN  [mutex EXCEPT
           !.holder  = IF m \in Mutexes THEN [@ EXCEPT ![m] = t] ELSE @,
           !.readers = IF m = "config" THEN @ \cup {t} ELSE @,
           !.paused  = IF m = "paused" /\ op \in {"pause", "resume"}
                       THEN op = "pause" ELSE @,
           !.task[t] = Advanced(@)]

InQueue(m, t) == \E i \in 1..Len(mutex.queue[m]) : mutex.queue[m][i] = t

otherThanMutex ==
    <<trackerVars, translated, preview, scheduler, loops, platform, surface,
      stateFile, tmpFile, lastOp, agentConfig, server, pc, mem, retries,
      backoff, iter, now>>

\* interval.tick() fires and the loop body begins.
IntervalTick ==
    /\ mutex.task["loop"].op = "none"
    /\ \E variant \in Variants("tick") :
         mutex' = [mutex EXCEPT !.task["loop"] =
                       [op |-> "tick", variant |-> variant, at |-> 1]]
    /\ UNCHANGED otherThanMutex

\* A method of the tracker is called.
CallBegins ==
    /\ \E t \in Tasks \ {"loop"}, op \in CallOps :
         /\ mutex.task[t].op = "none"
         /\ \E variant \in Variants(op) :
              mutex' = [mutex EXCEPT !.task[t] =
                            [op |-> op, variant |-> variant, at |-> 1]]
    /\ UNCHANGED otherThanMutex

\* lock().await / read().await: a read of config is granted at once, a
\* free mutex nobody waits for is taken, else the task joins its waiters.
TaskLocks(t) ==
    LET m == Instr(t)[2]
    IN  /\ Instr(t)[1] = "lock"
        /\ IF m = "config" THEN mutex' = Got(m, t)
           ELSE /\ ~InQueue(m, t)
                /\ mutex' = IF mutex.holder[m] = None /\ mutex.queue[m] = <<>>
                            THEN Got(m, t)
                            ELSE [mutex EXCEPT !.queue[m] = Append(@, t)]

\* A released mutex goes to its first waiter.
TaskGranted(t) ==
    LET m == Instr(t)[2]
    IN  /\ Instr(t)[1] = "lock"
        /\ m \in Mutexes
        /\ mutex.queue[m] # <<>>
        /\ Head(mutex.queue[m]) = t
        /\ mutex.holder[m] = None
        /\ mutex' = [Got(m, t) EXCEPT !.queue[m] = Tail(@)]

\* A guard is dropped.  The loop that has read paused = true goes back to
\* interval.tick() (`continue`).
TaskUnlocks(t) ==
    LET m == Instr(t)[2]
        skipped == /\ mutex.task[t].op = "tick"
                   /\ m = "paused"
                   /\ mutex.paused
    IN  /\ Instr(t)[1] = "unlock"
        /\ mutex' = [mutex EXCEPT
                        !.holder  = IF m \in Mutexes THEN [@ EXCEPT ![m] = None] ELSE @,
                        !.readers = IF m = "config" THEN @ \ {t} ELSE @,
                        !.task[t] = IF skipped THEN IdleTask ELSE Advanced(@)]

\* The grace-period sleep of a tick ends.
TaskSleeps(t) ==
    /\ Instr(t)[1] = "sleep"
    /\ mutex' = [mutex EXCEPT !.task[t] = Advanced(@)]

Locks == (\E t \in Tasks : TaskLocks(t)) /\ UNCHANGED otherThanMutex

HandsOver == (\E t \in Tasks : TaskGranted(t)) /\ UNCHANGED otherThanMutex

Unlocks == (\E t \in Tasks : TaskUnlocks(t)) /\ UNCHANGED otherThanMutex

Sleeps == (\E t \in Tasks : TaskSleeps(t)) /\ UNCHANGED otherThanMutex

\* TimeTracker::new and a started loop: every lock free, nothing paused.
InitLocks ==
    /\ platform = "Linux"
    /\ surface = [b \in Browsers |-> AbsentSurface(b)]
    /\ stateFile = Nothing
    /\ lastOp = NoOp
    /\ DaemonIdle
    /\ tlConfig = Nothing
    /\ tlState = Nothing
    /\ tracker = Nothing
    /\ clock = Nothing
    /\ tick = Nothing
    /\ tlFile = Nothing
    /\ gate = Nothing
    /\ translated = Nothing
    /\ preview = Nothing
    /\ scheduler = Nothing
    /\ loops = Nothing
    /\ mutex = [holder  |-> [m \in Mutexes |-> None],
                readers |-> {},
                queue   |-> [m \in Mutexes |-> <<>>],
                paused  |-> FALSE,
                task    |-> [t \in Tasks |-> IdleTask]]

NextLocks == IntervalTick \/ CallBegins \/ Locks \/ HandsOver \/ Unlocks \/ Sleeps

SpecLocks == InitLocks /\ [][NextLocks]_vars

\* The runtime polls every task that can proceed, a sleep ends, and a
\* mutex serves its waiters in order: a task whose next step is possible
\* takes it.
TaskProceeds(t) ==
    (TaskLocks(t) \/ TaskGranted(t) \/ TaskUnlocks(t) \/ TaskSleeps(t))
    /\ UNCHANGED otherThanMutex

FairLocks == \A t \in Tasks : WF_vars(TaskProceeds(t))

SpecLocksFair == SpecLocks /\ FairLocks

\* C40: the tracker's lock acquisition is deadlock-free: for any
\* interleaving of ticks with pause, resume, select_child, grant_extension,
\* reset_time and get_state calls, every call and every tick eventually
\* returns.
C40_EveryCallReturns ==
    \A t \in Tasks : (mutex.task[t].op # "none") ~> (mutex.task[t].op = "none")

\* A pause() that holds paused waits for the state a sleeping tick holds,
\* while a resume() waits for paused.
C40_Witness ==
    /\ mutex # Nothing
    /\ mutex.holder["state"] = "loop"
    /\ Instr("loop")[1] = "sleep"
    /\ \E t, u \in Tasks \ {"loop"} :
         /\ mutex.task[t].op = "pause"
         /\ mutex.holder["paused"] = t
         /\ InQueue("state", t)
         /\ mutex.task[u].op = "resume"
         /\ InQueue("paused", u)

====
